---- MODULE Spec2Model ----
(***************************************************************************)
(* Model of the DataFilter-Builder filter engine (utils/filterEngine.ts),  *)
(* its field catalog (data/fieldDefinitions.ts), the hooks that hold the   *)
(* filter conditions (hooks/useFilters) and the sort configuration         *)
(* (hooks/useSortedData), the row components that call the hook           *)
(* (components/filters), and the JavaScript value conversions they rely   *)
(* on.                                                                     *)
(*                                                                         *)
(* JavaScript values are tagged records:                                   *)
(*   [t |-> "undefined"], [t |-> "null"], [t |-> "boolean", b |-> ...],    *)
(*   [t |-> "string", s |-> ...], [t |-> "number", k |-> ..., n |-> ...],  *)
(*   [t |-> "array", a |-> <<...>>], [t |-> "object", o |-> [f |-> ...]]   *)
(* Numbers are integers plus NaN and +/-Infinity (no fractions).  Times    *)
(* are counted in ticks, TicksPerDay ticks to a day, from 1970-01-01 UTC.  *)
(***************************************************************************)
EXTENDS Integers, Sequences, FiniteSets, TLC

VARIABLES
    employees,     \* the record list handed to the engine (Employee[])
    conditions,    \* the condition list handed to the engine (FilterCondition[])
    now,           \* the clock read by "new Date()", in ticks
    call,          \* the last engine call: [fn, e, c] (indices into the lists)
    ret,           \* boolean returned by the last validateCondition/testCondition
    filteredData,  \* list returned by the last filterEmployees call
    storage,       \* localStorage item "dfp_filter_conditions"
    storageFails,  \* localStorage.setItem throws in this session
    hook,          \* useFilters: "unmounted", "mounted" or "crashed"
    idCounter,     \* module variable idCounter of useFilters
    sort,          \* useSortedData: the sort configuration [key, dir]
    sortedData,    \* useSortedData: the memoised sorted list
    sortLog,       \* the sort configurations held since the first render, oldest first
    timers,        \* the setTimeout callbacks of the TextInput components not yet run
    inputs,        \* the mounted TextInput components, by the id of their row
    settled        \* ids of the rows whose field was changed and whose value the
                   \* user has not edited since

engineVars == <<employees, conditions, now, call, ret, filteredData>>
hookVars == <<storage, storageFails, hook, idCounter>>
sortVars == <<sort, sortedData, sortLog>>
uiVars == <<timers, inputs, settled>>
vars == <<engineVars, hookVars, sortVars, uiVars>>

---------------------------------------------------------------------------
(* Bounds of the model                                                     *)

MaxEmployees == 2
MaxConditions == 2
MaxTicks == 1
TicksPerDay == 2

---------------------------------------------------------------------------
(* JavaScript values                                                       *)

Undefined == [t |-> "undefined"]
Null == [t |-> "null"]
Bool(b) == [t |-> "boolean", b |-> b]
Str(s) == [t |-> "string", s |-> s]
Num(n) == [t |-> "number", k |-> "fin", n |-> n]
NaN == [t |-> "number", k |-> "nan", n |-> 0]
Infinity == [t |-> "number", k |-> "inf", n |-> 1]
NegInfinity == [t |-> "number", k |-> "inf", n |-> -1]
Arr(a) == [t |-> "array", a |-> a]
Obj(o) == [t |-> "object", o |-> o]

\* typeof v === "object" && v !== null (arrays included)
IsObjectLike(v) == v.t \in {"object", "array"}

\* isNaN(x) for a number x
IsNaN(x) == x.k = "nan"

\* position of a number on the extended real line (NaN excluded by callers)
NumRank(x) == IF x.k = "inf" THEN x.n ELSE 0

\* x < y on numbers; every comparison with NaN is false
NumLt(x, y) ==
    /\ ~IsNaN(x) /\ ~IsNaN(y)
    /\ \/ NumRank(x) < NumRank(y)
       \/ x.k = "fin" /\ y.k = "fin" /\ x.n < y.n

\* x === y on numbers; NaN equals nothing
NumEq(x, y) == ~IsNaN(x) /\ ~IsNaN(y) /\ x = y

NumGt(x, y) == NumLt(y, x)
NumLe(x, y) == NumLt(x, y) \/ NumEq(x, y)
NumGe(x, y) == NumLt(y, x) \/ NumEq(x, y)

---------------------------------------------------------------------------
(* Strings                                                                 *)

CharAt(s, i) == SubSeq(s, i, i)

UpperChars == "ABCDEFGHIJKLMNOPQRSTUVWXYZ"
LowerChars == "abcdefghijklmnopqrstuvwxyz"
DigitChars == "0123456789"

\* the lower-case form of each upper-case letter
LowerOf ==
    [c \in {CharAt(UpperChars, i) : i \in 1..Len(UpperChars)} |->
        CharAt(LowerChars, CHOOSE i \in 1..Len(UpperChars) : CharAt(UpperChars, i) = c)]

\* String.prototype.toLowerCase on one character
LowerChar(c) == IF c \in DOMAIN LowerOf THEN LowerOf[c] ELSE c

RECURSIVE toLowerCase(_)
toLowerCase(s) ==
    IF Len(s) = 0 THEN ""
    ELSE LowerChar(CharAt(s, 1)) \o toLowerCase(SubSeq(s, 2, Len(s)))

\* String.prototype.startsWith / endsWith / includes
startsWith(s, p) == Len(p) <= Len(s) /\ SubSeq(s, 1, Len(p)) = p
endsWith(s, p) == Len(p) <= Len(s) /\ SubSeq(s, Len(s) - Len(p) + 1, Len(s)) = p
includes(s, p) ==
    \E i \in 0..(Len(s) - Len(p)) : SubSeq(s, i + 1, i + Len(p)) = p

IsSpace(c) == c = " "

\* String.prototype.trim (the only white space of the model is the blank)
RECURSIVE trimStart(_)
trimStart(s) ==
    IF Len(s) > 0 /\ IsSpace(CharAt(s, 1)) THEN trimStart(SubSeq(s, 2, Len(s))) ELSE s

RECURSIVE trimEnd(_)
trimEnd(s) ==
    IF Len(s) > 0 /\ IsSpace(CharAt(s, Len(s))) THEN trimEnd(SubSeq(s, 1, Len(s) - 1)) ELSE s

trim(s) == trimEnd(trimStart(s))

\* the value of each decimal digit
DigitOf ==
    [c \in {CharAt(DigitChars, i) : i \in 1..Len(DigitChars)} |->
        (CHOOSE i \in 1..Len(DigitChars) : CharAt(DigitChars, i) = c) - 1]

IsDigit(c) == c \in DOMAIN DigitOf
DigitVal(c) == DigitOf[c]

AllDigits(s) == Len(s) > 0 /\ \A i \in 1..Len(s) : IsDigit(CharAt(s, i))

RECURSIVE DigitsVal(_)
DigitsVal(s) ==
    IF Len(s) = 0 THEN 0
    ELSE 10 * DigitsVal(SubSeq(s, 1, Len(s) - 1)) + DigitVal(CharAt(s, Len(s)))

\* String.prototype.split(sep) for a one-character separator
RECURSIVE split(_, _)
split(s, sep) ==
    IF \E i \in 1..Len(s) : CharAt(s, i) = sep
    THEN LET i == CHOOSE j \in 1..Len(s) :
                    /\ CharAt(s, j) = sep
                    /\ \A h \in 1..(j - 1) : CharAt(s, h) # sep
         IN  <<SubSeq(s, 1, i - 1)>> \o split(SubSeq(s, i + 1, Len(s)), sep)
    ELSE <<s>>

---------------------------------------------------------------------------
(* Conversions: Number(v), String(v), Boolean(v), new Date(v)              *)

\* StringToNumber: blank-trimmed; "" is 0; optional sign; decimal digits or
\* Infinity; anything else is NaN.  (Fractions, exponents and radix
\* prefixes are outside the alphabet of the model's inputs.)
StringToNumber(s) ==
    LET b == trim(s)
        signed == Len(b) > 0 /\ CharAt(b, 1) \in {"+", "-"}
        sgn == IF signed /\ CharAt(b, 1) = "-" THEN -1 ELSE 1
        body == IF signed THEN SubSeq(b, 2, Len(b)) ELSE b
    IN  IF b = "" THEN Num(0)
        ELSE IF body = "Infinity" THEN [t |-> "number", k |-> "inf", n |-> sgn]
        ELSE IF AllDigits(body) THEN Num(sgn * DigitsVal(body))
        ELSE NaN

RECURSIVE NatToString(_)
NatToString(n) ==
    IF n < 10 THEN CharAt(DigitChars, n + 1)
    ELSE NatToString(n \div 10) \o CharAt(DigitChars, (n % 10) + 1)

\* Number.prototype.toString
NumberToString(x) ==
    IF x.k = "nan" THEN "NaN"
    ELSE IF x.k = "inf" THEN (IF x.n < 0 THEN "-Infinity" ELSE "Infinity")
    ELSE IF x.n < 0 THEN "-" \o NatToString(-x.n)
    ELSE NatToString(x.n)

\* String(v); an array joins its elements with ",", null and undefined
\* elements giving the empty string
RECURSIVE String(_)
RECURSIVE JoinArray(_)
JoinArray(a) ==
    IF Len(a) = 0 THEN ""
    ELSE LET h == IF Head(a).t \in {"undefined", "null"} THEN "" ELSE String(Head(a))
         IN  IF Len(a) = 1 THEN h ELSE h \o "," \o JoinArray(Tail(a))

String(v) ==
    CASE v.t = "string" -> v.s
      [] v.t = "number" -> NumberToString(v)
      [] v.t = "boolean" -> (IF v.b THEN "true" ELSE "false")
      [] v.t = "null" -> "null"
      [] v.t = "undefined" -> "undefined"
      [] v.t = "array" -> JoinArray(v.a)
      [] v.t = "object" -> "[object Object]"

\* Number(v)
Number(v) ==
    CASE v.t = "number" -> v
      [] v.t = "string" -> StringToNumber(v.s)
      [] v.t = "boolean" -> (IF v.b THEN Num(1) ELSE Num(0))
      [] v.t = "null" -> Num(0)
      [] v.t = "undefined" -> NaN
      [] v.t = "array" -> StringToNumber(JoinArray(v.a))
      [] v.t = "object" -> NaN

\* Boolean(v)
Boolean(v) ==
    CASE v.t = "boolean" -> v.b
      [] v.t = "number" -> ~(v.k = "nan" \/ (v.k = "fin" /\ v.n = 0))
      [] v.t = "string" -> v.s # ""
      [] v.t \in {"null", "undefined"} -> FALSE
      [] v.t \in {"array", "object"} -> TRUE

\* v === w for a primitive w (string, boolean, null, undefined)
StrictEq(v, w) == v = w

IsLeap(y) == (y % 4 = 0 /\ y % 100 # 0) \/ y % 400 = 0

DaysInMonth(y, m) ==
    IF m = 2 THEN (IF IsLeap(y) THEN 29 ELSE 28)
    ELSE IF m \in {4, 6, 9, 11} THEN 30 ELSE 31

\* days between 1970-01-01 and the civil date y-m-d
DaysFromCivil(y, m, d) ==
    LET yy == IF m <= 2 THEN y - 1 ELSE y
        era == yy \div 400
        yoe == yy - era * 400
        mp == (m + 9) % 12
        doy == (153 * mp + 2) \div 5 + d - 1
        doe == yoe * 365 + yoe \div 4 - yoe \div 100 + doy
    IN  era * 146097 + doe - 719468

InvalidDate == [valid |-> FALSE, time |-> 0]
DateAt(ticks) == [valid |-> TRUE, time |-> ticks]

\* Date.parse of an ISO date-only string YYYY-MM-DD (UTC midnight); illegal
\* element values and every other text of the model's inputs give NaN
ParseDate(s) ==
    IF /\ Len(s) = 10
       /\ CharAt(s, 5) = "-" /\ CharAt(s, 8) = "-"
       /\ AllDigits(SubSeq(s, 1, 4)) /\ AllDigits(SubSeq(s, 6, 7))
       /\ AllDigits(SubSeq(s, 9, 10))
    THEN LET y == DigitsVal(SubSeq(s, 1, 4))
             m == DigitsVal(SubSeq(s, 6, 7))
             d == DigitsVal(SubSeq(s, 9, 10))
         IN  IF m \in 1..12 /\ d >= 1 /\ d <= DaysInMonth(y, m)
             THEN DateAt(DaysFromCivil(y, m, d) * TicksPerDay)
             ELSE InvalidDate
    ELSE InvalidDate

\* new Date(v): a number is a time value in milliseconds, a string is
\* parsed, an object or array goes through its string form
NewDate(v) ==
    CASE v.t = "string" -> ParseDate(v.s)
      [] v.t = "number" ->
            IF v.k = "fin"
            THEN DateAt((v.n \div 86400000) * TicksPerDay
                        + ((v.n % 86400000) * TicksPerDay) \div 86400000)
            ELSE InvalidDate
      [] v.t = "boolean" -> DateAt(0)
      [] v.t = "null" -> DateAt(0)
      [] v.t = "undefined" -> InvalidDate
      [] v.t \in {"array", "object"} -> ParseDate(String(v))

---------------------------------------------------------------------------
(* data/fieldDefinitions.ts                                                *)

FIELD_DEFINITIONS ==
    << [key |-> "name", type |-> "text"],
       [key |-> "email", type |-> "text"],
       [key |-> "department", type |-> "single-select"],
       [key |-> "role", type |-> "text"],
       [key |-> "salary", type |-> "amount"],
       [key |-> "joinDate", type |-> "date"],
       [key |-> "lastReview", type |-> "date"],
       [key |-> "isActive", type |-> "boolean"],
       [key |-> "skills", type |-> "multi-select"],
       [key |-> "address.city", type |-> "text"],
       [key |-> "address.state", type |-> "text"],
       [key |-> "address.country", type |-> "single-select"],
       [key |-> "projects", type |-> "number"],
       [key |-> "performanceRating", type |-> "number"] >>

FieldTypes ==
    {"text", "number", "date", "amount", "single-select", "multi-select", "boolean"}

OPERATORS_BY_TYPE ==
    [ty \in FieldTypes |->
        CASE ty = "text" -> <<"contains", "equals", "starts_with", "ends_with", "not_contains">>
          [] ty = "number" -> <<"equals", "not_equals", "gt", "lt", "gte", "lte", "between">>
          [] ty = "date" -> <<"between", "before", "after", "last_30_days">>
          [] ty = "amount" -> <<"between">>
          [] ty = "single-select" -> <<"is", "is_not">>
          [] ty = "multi-select" -> <<"in", "not_in", "contains_all">>
          [] ty = "boolean" -> <<"is">>]

\* the operator set of a field type
OperatorsOf(ty) == {OPERATORS_BY_TYPE[ty][i] : i \in 1..Len(OPERATORS_BY_TYPE[ty])}

\* FIELD_DEFINITIONS.find((f) => f.key === key): found, and the first match
HasField(key) == \E i \in 1..Len(FIELD_DEFINITIONS) : FIELD_DEFINITIONS[i].key = key

FindField(key) ==
    FIELD_DEFINITIONS[CHOOSE i \in 1..Len(FIELD_DEFINITIONS) :
                          /\ FIELD_DEFINITIONS[i].key = key
                          /\ \A j \in 1..(i - 1) : FIELD_DEFINITIONS[j].key # key]

---------------------------------------------------------------------------
(* utils/filterEngine.ts: helpers                                          *)

\* acc[part] on an object or an array (own properties only)
GetProp(v, part) ==
    CASE v.t = "object" -> (IF part \in DOMAIN v.o THEN v.o[part] ELSE Undefined)
      [] v.t = "array" ->
            IF part = "length" THEN Num(Len(v.a))
            ELSE IF /\ AllDigits(part)
                    /\ NatToString(DigitsVal(part)) = part
                    /\ DigitsVal(part) < Len(v.a)
                 THEN v.a[DigitsVal(part) + 1]
                 ELSE Undefined
      [] OTHER -> Undefined

\* the reduce of getNestedValue over the parts of the key
RECURSIVE ReduceParts(_, _)
ReduceParts(acc, parts) ==
    IF Len(parts) = 0 THEN acc
    ELSE ReduceParts(IF IsObjectLike(acc) THEN GetProp(acc, Head(parts)) ELSE Undefined,
                     Tail(parts))

getNestedValue(obj, key) == ReduceParts(obj, split(key, "."))

isDateRange(v) == v.t = "object" /\ "from" \in DOMAIN v.o

isRangeValue(v) == v.t = "object" /\ "min" \in DOMAIN v.o

isValidDate(d) == d.valid

---------------------------------------------------------------------------
(* utils/filterEngine.ts: validateCondition                                *)

\* case "number" of validateCondition
validateNumber(operator, value) ==
    IF operator = "between"
    THEN /\ isRangeValue(value)
         /\ (~StrictEq(GetProp(value, "min"), Str(""))
             \/ ~StrictEq(GetProp(value, "max"), Str("")))
    ELSE /\ ~StrictEq(value, Null)
         /\ ~StrictEq(value, Str(""))
         /\ ~IsNaN(Number(value))

\* mutant of validateDate: "before" and "after" accept either bound
validateDate_EitherBound(operator, value) ==
    IF operator = "last_30_days" THEN TRUE
    ELSE IF ~isDateRange(value) THEN FALSE
    ELSE \/ ~StrictEq(GetProp(value, "from"), Str(""))
         \/ ~StrictEq(GetProp(value, "to"), Str(""))

\* case "date" of validateCondition
validateDate(operator, value) ==
    IF operator = "last_30_days" THEN TRUE
    ELSE IF ~isDateRange(value) THEN FALSE
    ELSE IF operator \in {"before", "after"}
         THEN ~StrictEq(GetProp(value, "from"), Str(""))
         ELSE \/ ~StrictEq(GetProp(value, "from"), Str(""))
              \/ ~StrictEq(GetProp(value, "to"), Str(""))

validateCondition(condition) ==
    IF ~HasField(condition.fieldKey) THEN FALSE
    ELSE
    LET field == FindField(condition.fieldKey)
        value == condition.value
        operator == condition.operator
    IN  CASE field.type = "text" ->
                value.t = "string" /\ trim(value.s) # ""
          [] field.type = "number" -> validateNumber(operator, value)
          [] field.type = "date" -> validateDate(operator, value)
          [] field.type = "amount" ->
                /\ isRangeValue(value)
                /\ (~StrictEq(GetProp(value, "min"), Str(""))
                    \/ ~StrictEq(GetProp(value, "max"), Str("")))
          [] field.type = "single-select" ->
                value.t = "string" /\ value.s # ""
          [] field.type = "multi-select" ->
                value.t = "array" /\ Len(value.a) > 0
          [] field.type = "boolean" -> TRUE
          [] OTHER -> FALSE

---------------------------------------------------------------------------
(* utils/filterEngine.ts: testCondition, one operator per case of the      *)
(* switch on field.type                                                    *)

testText(raw, operator, value) ==
    LET haystack == toLowerCase(String(raw))
        needle == toLowerCase(String(IF value.t \in {"null", "undefined"}
                                     THEN Str("") ELSE value))
    IN  CASE operator = "equals" -> haystack = needle
          [] operator = "contains" -> includes(haystack, needle)
          [] operator = "starts_with" -> startsWith(haystack, needle)
          [] operator = "ends_with" -> endsWith(haystack, needle)
          [] operator = "not_contains" -> ~includes(haystack, needle)
          [] OTHER -> TRUE

\* value.min !== "" ? Number(value.min) : null
BoundOf(value, side) ==
    IF ~StrictEq(GetProp(value, side), Str(""))
    THEN [some |-> TRUE, n |-> Number(GetProp(value, side))]
    ELSE [some |-> FALSE, n |-> NaN]

\* the min/max test shared by number "between" and amount
WithinBounds(n, min, max) ==
    IF min.some /\ ~IsNaN(min.n) /\ NumLt(n, min.n) THEN FALSE
    ELSE IF max.some /\ ~IsNaN(max.n) /\ NumGt(n, max.n) THEN FALSE
    ELSE TRUE

InRange(n, value) == WithinBounds(n, BoundOf(value, "min"), BoundOf(value, "max"))

\* the single-value operators of a number field, on n = Number(raw) and
\* fv = Number(value)
CompareNumber(n, operator, fv) ==
    IF IsNaN(fv) THEN TRUE
    ELSE CASE operator = "equals" -> NumEq(n, fv)
           [] operator = "not_equals" -> ~NumEq(n, fv)
           [] operator = "gt" -> NumGt(n, fv)
           [] operator = "lt" -> NumLt(n, fv)
           [] operator = "gte" -> NumGe(n, fv)
           [] operator = "lte" -> NumLe(n, fv)
           [] OTHER -> TRUE

testNumber(raw, operator, value) ==
    IF operator = "between"
    THEN (IF ~isRangeValue(value) THEN TRUE ELSE InRange(Number(raw), value))
    ELSE CompareNumber(Number(raw), operator, Number(value))

\* the clock starts 30 days after the join date of the sample record
Now0 == DaysFromCivil(2021, 4, 14) * TicksPerDay

\* mutant of cutoff: the thirty days are counted from the first evaluation
cutoff_AtFirstEvaluation(clock) == Now0 - 30 * TicksPerDay

\* case "last_30_days": cutoff = new Date(); cutoff.setDate(cutoff.getDate() - 30)
cutoff(clock) == clock - 30 * TicksPerDay

\* mutant of CompareDate: the upper bound of "between" is exclusive
CompareDate_ExclusiveTo(d, operator, value, clock, from, to, hasFrom, hasTo) ==
    CASE ~isValidDate(d) -> FALSE
      [] isValidDate(d) /\ operator = "last_30_days" ->
            d.time >= cutoff(clock)
      [] isValidDate(d) /\ operator # "last_30_days" /\ ~isDateRange(value) -> TRUE
      [] isValidDate(d) /\ operator = "before" /\ isDateRange(value) ->
            \* "before" uses the "from" slot as the threshold date
            (IF StrictEq(GetProp(value, "from"), Str("")) THEN TRUE
             ELSE isValidDate(from) /\ d.time < from.time)
      [] isValidDate(d) /\ operator = "after" /\ isDateRange(value) ->
            (IF StrictEq(GetProp(value, "from"), Str("")) THEN TRUE
             ELSE isValidDate(from) /\ d.time > from.time)
      [] OTHER ->
            \* "between"
            (IF hasFrom /\ isValidDate(from) /\ d.time < from.time THEN FALSE
             ELSE IF hasTo /\ isValidDate(to) /\ d.time >= to.time THEN FALSE
             ELSE TRUE)

\* the date operators on d = new Date(raw), from = new Date(value.from),
\* to = new Date(value.to), hasFrom = Boolean(value.from), hasTo = Boolean(value.to)
CompareDate(d, operator, value, clock, from, to, hasFrom, hasTo) ==
    CASE ~isValidDate(d) -> FALSE
      [] isValidDate(d) /\ operator = "last_30_days" ->
            d.time >= cutoff(clock)
      [] isValidDate(d) /\ operator # "last_30_days" /\ ~isDateRange(value) -> TRUE
      [] isValidDate(d) /\ operator = "before" /\ isDateRange(value) ->
            \* "before" uses the "from" slot as the threshold date
            (IF StrictEq(GetProp(value, "from"), Str("")) THEN TRUE
             ELSE isValidDate(from) /\ d.time < from.time)
      [] isValidDate(d) /\ operator = "after" /\ isDateRange(value) ->
            (IF StrictEq(GetProp(value, "from"), Str("")) THEN TRUE
             ELSE isValidDate(from) /\ d.time > from.time)
      [] OTHER ->
            \* "between"
            (IF hasFrom /\ isValidDate(from) /\ d.time < from.time THEN FALSE
             ELSE IF hasTo /\ isValidDate(to) /\ d.time > to.time THEN FALSE
             ELSE TRUE)

testDate(raw, operator, value, clock) ==
    CompareDate(NewDate(raw), operator, value, clock,
                NewDate(GetProp(value, "from")), NewDate(GetProp(value, "to")),
                Boolean(GetProp(value, "from")), Boolean(GetProp(value, "to")))

\* mutant of testAmount: an amount field handled as a number field
testAmount_AsNumber(raw, operator, value) == testNumber(raw, operator, value)

testAmount(raw, operator, value) ==
    IF ~isRangeValue(value) THEN TRUE ELSE InRange(Number(raw), value)

\* mutant of testSingleSelect: an operator other than is / is_not rejects
testSingleSelect_DefaultRejects(raw, operator, value) ==
    LET s == toLowerCase(String(raw))
        fv == toLowerCase(String(IF value.t \in {"null", "undefined"}
                                 THEN Str("") ELSE value))
    IN  CASE operator = "is" -> s = fv
          [] operator = "is_not" -> s # fv
          [] OTHER -> FALSE

testSingleSelect(raw, operator, value) ==
    LET s == toLowerCase(String(raw))
        fv == toLowerCase(String(IF value.t \in {"null", "undefined"}
                                 THEN Str("") ELSE value))
    IN  CASE operator = "is" -> s = fv
          [] operator = "is_not" -> s # fv
          [] OTHER -> TRUE

\* array.map((x) => String(x).toLowerCase())
LowerAll(a) == [i \in 1..Len(a) |-> toLowerCase(String(a[i]))]

\* array.includes(s)
ArrIncludes(a, s) == \E i \in 1..Len(a) : a[i] = s

\* mutant of testMultiSelect: not_in passes when some selected value is missing
testMultiSelect_NotInSome(raw, operator, value) ==
    LET arr == IF raw.t = "array" THEN LowerAll(raw.a) ELSE <<>>
        selected == IF value.t = "array" THEN LowerAll(value.a) ELSE <<>>
    IN  IF Len(selected) = 0 THEN TRUE
        ELSE CASE operator = "in" ->
                    \E i \in 1..Len(selected) : ArrIncludes(arr, selected[i])
               [] operator = "not_in" ->
                    \E i \in 1..Len(selected) : ~ArrIncludes(arr, selected[i])
               [] operator = "contains_all" ->
                    \A i \in 1..Len(selected) : ArrIncludes(arr, selected[i])
               [] OTHER -> TRUE

testMultiSelect(raw, operator, value) ==
    LET arr == IF raw.t = "array" THEN LowerAll(raw.a) ELSE <<>>
        selected == IF value.t = "array" THEN LowerAll(value.a) ELSE <<>>
    IN  IF Len(selected) = 0 THEN TRUE
        ELSE CASE operator = "in" ->
                    \E i \in 1..Len(selected) : ArrIncludes(arr, selected[i])
               [] operator = "not_in" ->
                    \A i \in 1..Len(selected) : ~ArrIncludes(arr, selected[i])
               [] operator = "contains_all" ->
                    \A i \in 1..Len(selected) : ArrIncludes(arr, selected[i])
               [] OTHER -> TRUE

testBoolean(raw, operator, value) ==
    LET actual == Boolean(raw)
        expected == StrictEq(value, Bool(TRUE)) \/ StrictEq(value, Str("true"))
    IN  actual = expected

\* the switch of testCondition on field.type
TestByType(field, raw, operator, value, clock) ==
    CASE field.type = "text" -> testText(raw, operator, value)
      [] field.type = "number" -> testNumber(raw, operator, value)
      [] field.type = "date" -> testDate(raw, operator, value, clock)
      [] field.type = "amount" -> testAmount(raw, operator, value)
      [] field.type = "single-select" -> testSingleSelect(raw, operator, value)
      [] field.type = "multi-select" -> testMultiSelect(raw, operator, value)
      [] field.type = "boolean" -> testBoolean(raw, operator, value)
      [] OTHER -> TRUE

\* mutant of testCondition: the guard tests for undefined only, not for null
testCondition_UndefinedOnly(employee, condition, clock) ==
    IF ~HasField(condition.fieldKey) THEN TRUE
    ELSE
    LET field == FindField(condition.fieldKey)
        raw == getNestedValue(employee, condition.fieldKey)
    IN  IF StrictEq(raw, Undefined) THEN FALSE
        ELSE TestByType(field, raw, condition.operator, condition.value, clock)

\* mutant of testCondition: a condition on an unknown field rejects the record
testCondition_UnknownRejects(employee, condition, clock) ==
    IF ~HasField(condition.fieldKey) THEN FALSE
    ELSE
    LET field == FindField(condition.fieldKey)
        raw == getNestedValue(employee, condition.fieldKey)
    IN  IF StrictEq(raw, Undefined) \/ StrictEq(raw, Null) THEN FALSE
        ELSE TestByType(field, raw, condition.operator, condition.value, clock)

testCondition(employee, condition, clock) ==
    IF ~HasField(condition.fieldKey) THEN TRUE
    ELSE
    LET field == FindField(condition.fieldKey)
        raw == getNestedValue(employee, condition.fieldKey)
    IN  \* Null / undefined field values never match any condition
        IF StrictEq(raw, Undefined) \/ StrictEq(raw, Null) THEN FALSE
        ELSE TestByType(field, raw, condition.operator, condition.value, clock)

---------------------------------------------------------------------------
(* utils/filterEngine.ts: filterEmployees                                  *)

\* mutant of ValidConditions: the isValid flag is not consulted
ValidConditions_KeepAll(conds) == conds

\* conditions.filter((c) => c.isValid)
ValidConditions(conds) ==
    LET IsValid(c) == c.isValid IN SelectSeq(conds, IsValid)

\* the Map built by the grouping loop, as the list of its entries in
\* insertion order; each entry holds a key and the conditions pushed to it
RECURSIVE GroupByField(_, _)
GroupByField(byField, conds) ==
    IF Len(conds) = 0 THEN byField
    ELSE LET cond == Head(conds)
             known == \E i \in 1..Len(byField) : byField[i].key = cond.fieldKey
             pushed ==
                 IF known
                 THEN [i \in 1..Len(byField) |->
                          IF byField[i].key = cond.fieldKey
                          THEN [byField[i] EXCEPT !.group = Append(@, cond)]
                          ELSE byField[i]]
                 ELSE Append(byField, [key |-> cond.fieldKey, group |-> <<cond>>])
         IN  GroupByField(pushed, Tail(conds))

\* mutant of PassesGroups: every condition of every group must pass
PassesGroups_EveryCondition(emp, byField, clock) ==
    \A g \in 1..Len(byField) :
        \A i \in 1..Len(byField[g].group) :
            testCondition(emp, byField[g].group[i], clock)

\* the callback of employees.filter: every group has a condition that passes
PassesGroups(emp, byField, clock) ==
    \A g \in 1..Len(byField) :
        \E i \in 1..Len(byField[g].group) :
            testCondition(emp, byField[g].group[i], clock)

\* mutant of filterEmployees: the retained records come out in reverse order
filterEmployees_Reversed(emps, conds, clock) ==
    LET validConditions == ValidConditions(conds)
    IN  IF Len(validConditions) = 0 THEN emps
        ELSE LET byField == GroupByField(<<>>, validConditions)
                 Keep(emp) == PassesGroups(emp, byField, clock)
                 kept == SelectSeq(emps, Keep)
             IN  [i \in 1..Len(kept) |-> kept[Len(kept) + 1 - i]]

filterEmployees(emps, conds, clock) ==
    LET validConditions == ValidConditions(conds)
    IN  IF Len(validConditions) = 0 THEN emps
        ELSE LET byField == GroupByField(<<>>, validConditions)
                 Keep(emp) == PassesGroups(emp, byField, clock)
             IN  SelectSeq(emps, Keep)

---------------------------------------------------------------------------
(* Inputs of the list-level specification: short lists over the records    *)
(* and conditions of the documented Department / Salary example (plus a    *)
(* record with no department, a condition flagged invalid and conditions   *)
(* on unknown fields), and the example itself                              *)

Emp(id, department, salary) ==
    Obj([id |-> Num(id), department |-> Str(department), salary |-> Num(salary)])

Emp1 == Emp(1, "Engineering", 95000)
Emp2 == Emp(2, "Design", 70000)
Emp3 == Emp(3, "Marketing", 120000)
Emp4 == Obj([id |-> Num(4), salary |-> Num(85000)])

EmployeePool == {Emp1, Emp2, Emp4}

Cond(id, fieldKey, operator, value, isValid) ==
    [id |-> id, fieldKey |-> fieldKey, operator |-> operator,
     value |-> value, isValid |-> isValid]

Range(min, max) == Obj([min |-> Str(min), max |-> Str(max)])
DateRange(from, to) == Obj([from |-> Str(from), to |-> Str(to)])
StrList(a) == Arr([i \in 1..Len(a) |-> Str(a[i])])

CondEngineering == Cond("c1", "department", "is", Str("Engineering"), TRUE)
CondDesign == Cond("c2", "department", "is", Str("Design"), TRUE)
CondSalaryGt == Cond("c3", "salary", "gt", Str("80000"), TRUE)
CondSalaryMin == Cond("c4", "salary", "between", Range("80000", ""), TRUE)
CondMarketingOff == Cond("c5", "department", "is", Str("Marketing"), FALSE)
CondUnknown == Cond("c6", "nickname", "equals", Str("Al"), TRUE)
CondUnknownRange == Cond("c7", "address.zip", "between", Range("1", "2"), TRUE)

ConditionPool ==
    {CondEngineering, CondDesign, CondSalaryGt, CondSalaryMin,
     CondMarketingOff, CondUnknown, CondUnknownRange}

\* the sequences over S of length at most n
SeqsUpTo(S, n) == UNION {[1..k -> S] : k \in 0..n}

ScenarioEmployees == <<Emp1, Emp2, Emp3>>
ScenarioConditions == <<CondEngineering, CondDesign, CondSalaryGt>>

\* the same example with the salary threshold given as a min/max range
RangeConditions == <<CondDesign, CondEngineering, CondSalaryMin>>


NoCall == [fn |-> "none", e |-> 0, c |-> 0]

\* localStorage.getItem returns null: nothing was saved
NoItem == [kind |-> "none"]

\* useState<SortConfig>({ key: 'id', dir: 'asc' })
InitialSort == [key |-> "id", dir |-> "asc"]

\* no row component is on screen
NoInputs == [id \in {} |-> Null]

UiUnused ==
    /\ timers = <<>>
    /\ inputs = NoInputs
    /\ settled = {}

\* the hooks are not in use while the engine is called directly
HooksUnused ==
    /\ storage = NoItem
    /\ storageFails = FALSE
    /\ hook = "unmounted"
    /\ idCounter = 0
    /\ sort = InitialSort
    /\ sortedData = <<>>
    /\ sortLog = <<InitialSort>>
    /\ UiUnused

Init ==
    /\ employees \in SeqsUpTo(EmployeePool, MaxEmployees) \cup {ScenarioEmployees}
    /\ conditions \in SeqsUpTo(ConditionPool, MaxConditions)
                      \cup {ScenarioConditions, RangeConditions}
    /\ now = Now0
    /\ call = NoCall
    /\ ret = FALSE
    /\ filteredData = <<>>
    /\ HooksUnused

---------------------------------------------------------------------------
(* The engine's operations, called on the current inputs                   *)

CallValidateCondition(c) ==
    /\ call = NoCall
    /\ call' = [fn |-> "validateCondition", e |-> 0, c |-> c]
    /\ ret' = validateCondition(conditions[c])
    /\ UNCHANGED <<employees, conditions, now, filteredData>>
    /\ UNCHANGED <<hookVars, sortVars, uiVars>>

CallTestCondition(e, c) ==
    /\ call = NoCall
    /\ call' = [fn |-> "testCondition", e |-> e, c |-> c]
    /\ ret' = testCondition(employees[e], conditions[c], now)
    /\ UNCHANGED <<employees, conditions, now, filteredData>>
    /\ UNCHANGED <<hookVars, sortVars, uiVars>>

CallFilterEmployees ==
    /\ call = NoCall
    /\ call' = [fn |-> "filterEmployees", e |-> 0, c |-> 0]
    /\ filteredData' = filterEmployees(employees, conditions, now)
    /\ UNCHANGED <<employees, conditions, now, ret>>
    /\ UNCHANGED <<hookVars, sortVars, uiVars>>

\* the caller takes the result; the engine keeps nothing between calls
Return ==
    /\ call # NoCall
    /\ call' = NoCall
    /\ ret' = FALSE
    /\ filteredData' = <<>>
    /\ UNCHANGED <<employees, conditions, now>>
    /\ UNCHANGED <<hookVars, sortVars, uiVars>>

\* time passes between two calls
Tick ==
    /\ call = NoCall
    /\ now < Now0 + MaxTicks
    /\ now' = now + 1
    /\ UNCHANGED <<employees, conditions, call, ret, filteredData>>
    /\ UNCHANGED <<hookVars, sortVars, uiVars>>

Next ==
    \/ \E c \in 1..Len(conditions) : CallValidateCondition(c)
    \/ \E e \in 1..Len(employees) : \E c \in 1..Len(conditions) : CallTestCondition(e, c)
    \/ CallFilterEmployees
    \/ Return
    \/ Tick

Spec == Init /\ [][Next]_vars

---------------------------------------------------------------------------
(* Inputs of the predicate-level specification: one record and one         *)
(* condition on the same field, every operator tag against every value     *)
(* shape and every kind of field value                                     *)

BaseEmployee ==
    [id |-> Num(1),
     name |-> Str("Al Smith"),
     department |-> Str("Engineering"),
     salary |-> Num(95000),
     joinDate |-> Str("2021-03-15"),
     isActive |-> Bool(TRUE),
     skills |-> StrList(<<"React", "Go">>),
     address |-> Obj([city |-> Str("Reno"), state |-> Str("NV"), country |-> Str("USA")]),
     projects |-> Num(3)]

\* the base record with top-level property k set to v, or deleted
WithProp(k, v) == Obj([f \in (DOMAIN BaseEmployee) \cup {k} |->
                          IF f = k THEN v ELSE BaseEmployee[f]])
WithoutProp(k) == Obj([f \in (DOMAIN BaseEmployee) \ {k} |-> BaseEmployee[f]])

RawPool ==
    {Null, Str(""), Str("Engineering"), Str("abc"),
     Str("2021-03-14"), Str("2021-03-15"), Str("2021-04-14"),
     Num(0), Num(3), Num(5), NaN, Bool(TRUE), Bool(FALSE),
     StrList(<<"React", "Go">>), Arr(<<>>)}

TestKeys ==
    {"name", "department", "salary", "joinDate", "isActive", "skills",
     "address.city", "projects", "nickname"}

\* the records that vary in the field the key names
EmployeesFor(k) ==
    IF k = "address.city"
    THEN {WithProp("address", Obj([city |-> raw, state |-> Str("NV")])) : raw \in RawPool}
         \cup {WithProp("address", Obj([state |-> Str("NV")])),
               WithProp("address", Null),
               WithProp("address", Str("Reno")),
               WithoutProp("address")}
    ELSE {WithProp(k, raw) : raw \in RawPool} \cup {WithoutProp(k)}

AllOperators == UNION {OperatorsOf(ty) : ty \in FieldTypes} \cup {"bogus"}

ValuePool ==
    {Null, Bool(TRUE), Bool(FALSE),
     Str(""), Str(" "), Str("engineering"), Str("eng"), Str("abc"), Str("3"), Str("true"),
     Str("Infinity"),
     Arr(<<>>), StrList(<<"react">>), StrList(<<"React", "Rust">>), StrList(<<"Rust">>),
     Range("", ""), Range("3", ""), Range("", "3"), Range("abc", ""), Range("", "abc"),
     DateRange("", ""), DateRange("2021-03-15", ""), DateRange("2021-03-16", ""),
     DateRange("", "2021-03-14"), DateRange("2021-03-14", "2021-03-15"),
     DateRange("garbage", ""), DateRange("", "garbage")}

PredicateInit ==
    /\ \E k \in TestKeys : \E op \in AllOperators : \E v \in ValuePool :
          /\ employees \in {<<emp>> : emp \in EmployeesFor(k)}
          /\ conditions = <<Cond("c1", k, op, v, TRUE)>>
    /\ now = Now0
    /\ call = NoCall
    /\ ret = FALSE
    /\ filteredData = <<>>
    /\ HooksUnused

PredicateSpec == PredicateInit /\ [][Next]_vars

---------------------------------------------------------------------------
(* Properties of filterEmployees (specification Spec)                      *)

\* the field value the condition at index c reads from the record at index e
RawAt(e, c) == getNestedValue(employees[e], conditions[c].fieldKey)

\* C1: filterEmployees retains a record iff every fieldKey that has a valid
\* condition has at least one valid condition on that fieldKey which
\* testCondition accepts for the record (OR within a field, AND across
\* fields), and the retained records are the input records in input order.
C1_GroupedAndOr ==
    call.fn = "filterEmployees" =>
        LET valid == {i \in 1..Len(conditions) : conditions[i].isValid}
            Retained(emp) ==
                \A i \in valid : \E j \in valid :
                    /\ conditions[j].fieldKey = conditions[i].fieldKey
                    /\ testCondition(emp, conditions[j], now)
        IN  filteredData = SelectSeq(employees, Retained)

\* C1 witness: two valid conditions share a field and a third is on another
\* field; one record is kept through the second alternative only, another
\* record passes the shared field and is dropped by the other field.
C1_Witness ==
    /\ call.fn = "filterEmployees"
    /\ \E i, j, k \in 1..Len(conditions) :
          /\ i < j
          /\ conditions[i].isValid /\ conditions[j].isValid /\ conditions[k].isValid
          /\ conditions[i].fieldKey = conditions[j].fieldKey
          /\ conditions[k].fieldKey # conditions[i].fieldKey
          /\ \E e \in 1..Len(filteredData) :
                /\ ~testCondition(filteredData[e], conditions[i], now)
                /\ testCondition(filteredData[e], conditions[j], now)
          /\ \E e \in 1..Len(employees) :
                /\ testCondition(employees[e], conditions[i], now)
                /\ ~testCondition(employees[e], conditions[k], now)
                /\ \A r \in 1..Len(filteredData) : filteredData[r] # employees[e]

\* C2 as stated: the Department / Salary example (department is
\* Engineering, department is Design, salary gt "80000" on records 1, 2, 3)
\* returns exactly record 1.
C2_ScenarioReturnsOnlyId1 ==
    (/\ call.fn = "filterEmployees"
     /\ employees = ScenarioEmployees
     /\ conditions = ScenarioConditions) => filteredData = <<Emp1>>

\* C2 amended: the example returns records 1 and 2, in that order: record 3
\* fails the department group, and salary gt "80000" removes nothing because
\* salary is an amount field and the value is not a min/max range.
C2_ScenarioReturnsId1AndId2 ==
    (/\ call.fn = "filterEmployees"
     /\ employees = ScenarioEmployees
     /\ conditions = ScenarioConditions) => filteredData = <<Emp1, Emp2>>

\* C2 witness: filterEmployees has run on the example.
C2_Witness ==
    /\ call.fn = "filterEmployees"
    /\ employees = ScenarioEmployees
    /\ conditions = ScenarioConditions
    /\ Len(filteredData) > 0

\* C3: conditions with isValid = FALSE have no effect: the result equals the
\* result for the list without them, and with no valid condition the result
\* is the input record list.
C3_InvalidHaveNoEffect ==
    call.fn = "filterEmployees" =>
        LET Flagged(c) == c.isValid
            stripped == SelectSeq(conditions, Flagged)
        IN  /\ filteredData = filterEmployees(employees, stripped, now)
            /\ Len(stripped) = 0 => filteredData = employees

\* C3 witness: the list holds a valid condition and an invalid one, and a
\* record that the invalid condition would reject is in the result.
C3_Witness ==
    /\ call.fn = "filterEmployees"
    /\ \E i, j \in 1..Len(conditions) :
          /\ conditions[i].isValid
          /\ ~conditions[j].isValid
          /\ \E r \in 1..Len(filteredData) :
                ~testCondition(filteredData[r], conditions[j], now)

\* r is s with some elements left out
IsSubsequence(r, s) ==
    \E f \in [1..Len(r) -> 1..Len(s)] :
        /\ \A i \in 1..Len(r) : s[f[i]] = r[i]
        /\ \A i, j \in 1..Len(r) : i < j => f[i] < f[j]

\* C4: a call of filterEmployees returns a subsequence of the record list
\* (nothing added, duplicated, altered or reordered) and leaves the record
\* list and the condition list as they were.
C4_OrderPreserved ==
    [][call'.fn = "filterEmployees" =>
          /\ IsSubsequence(filteredData', employees)
          /\ employees' = employees
          /\ conditions' = conditions]_vars

\* C4 witness: a result of two or more records with a record left out.
C4_Witness ==
    /\ call.fn = "filterEmployees"
    /\ Len(filteredData) >= 2
    /\ Len(filteredData) < Len(employees)
    /\ filteredData[1] # filteredData[2]

---------------------------------------------------------------------------
(* Properties of testCondition and validateCondition (specification        *)
(* PredicateSpec: one record, one condition)                               *)

TheCondition == conditions[1]
TheEmployee == employees[1]
TheRaw == getNestedValue(TheEmployee, TheCondition.fieldKey)
TheType == IF HasField(TheCondition.fieldKey)
           THEN FindField(TheCondition.fieldKey).type ELSE "none"
Present(raw) == raw # Undefined /\ raw # Null

\* testCondition of the record against the condition with another operator
\* and value
TestWith(operator, value) ==
    testCondition(TheEmployee,
                  [TheCondition EXCEPT !.operator = operator, !.value = value], now)

\* C5 as stated: on a multi-select field with a non-empty selection, "in"
\* and "not_in" give opposite results for every record, a record without
\* the field included.
C5_NotInNegatesInForAllRecords ==
    (/\ call.fn = "testCondition"
     /\ TheType = "multi-select"
     /\ TheCondition.operator = "in"
     /\ TheCondition.value.t = "array" /\ Len(TheCondition.value.a) > 0)
    => ret = ~TestWith("not_in", TheCondition.value)

\* C5 amended: on a multi-select field with a non-empty selection, "in" and
\* "not_in" give opposite results for every record whose field value is
\* present (neither undefined nor null), array or not.
C5_NotInNegatesInWhenPresent ==
    (/\ call.fn = "testCondition"
     /\ TheType = "multi-select"
     /\ TheCondition.operator = "in"
     /\ TheCondition.value.t = "array" /\ Len(TheCondition.value.a) > 0
     /\ Present(TheRaw))
    => ret = ~TestWith("not_in", TheCondition.value)

\* C5 witness: "in" matched a record whose array holds one of two selected
\* values.
C5_Witness ==
    /\ call.fn = "testCondition"
    /\ TheType = "multi-select"
    /\ TheCondition.operator = "in"
    /\ TheCondition.value.t = "array" /\ Len(TheCondition.value.a) = 2
    /\ TheRaw.t = "array" /\ Len(TheRaw.a) > 0
    /\ ret = TRUE
    /\ ~TestWith("contains_all", TheCondition.value)

\* a comparison text that is supplied and does not convert to a number
MalformedNumber(v) == v.t = "string" /\ v.s # "" /\ IsNaN(Number(v))

\* a threshold text that is supplied and does not parse as a date
MalformedDate(v) == v.t = "string" /\ v.s # "" /\ ~isValidDate(NewDate(v))

\* C6 as stated: on a number field, for every record, "between" with only
\* min = m matches exactly when "gte" m does, "between" with only max = m
\* matches exactly when "lte" m does, and "between" with both bounds empty
\* is invalid for validateCondition.
C6_BetweenOneBoundIsGteLte ==
    LET value == TheCondition.value
        min == GetProp(value, "min")
        max == GetProp(value, "max")
    IN  (/\ TheType = "number"
         /\ TheCondition.operator = "between"
         /\ isRangeValue(value))
        => /\ (call.fn = "testCondition" /\ min # Str("") /\ max = Str(""))
                => ret = TestWith("gte", min)
           /\ (call.fn = "testCondition" /\ min = Str("") /\ max # Str(""))
                => ret = TestWith("lte", max)
           /\ (call.fn = "validateCondition" /\ min = Str("") /\ max = Str(""))
                => ret = FALSE

\* C7 as stated: for every field type, a condition whose operator is not in
\* the type's operator set passes every record whose field value is present.
C7_UnknownOperatorPasses ==
    (/\ call.fn = "testCondition"
     /\ HasField(TheCondition.fieldKey)
     /\ TheCondition.operator \notin OperatorsOf(TheType)
     /\ Present(TheRaw))
    => ret = TRUE

\* C7 amended: an operator outside the type's operator set passes every
\* record with a present field value on text, number, single-select and
\* multi-select fields; on a date field it is evaluated as "between", on an
\* amount field as "between" and on a boolean field as "is".
C7_UnknownOperatorByType ==
    (/\ call.fn = "testCondition"
     /\ HasField(TheCondition.fieldKey)
     /\ TheCondition.operator \notin OperatorsOf(TheType)
     /\ Present(TheRaw))
    => CASE TheType \in {"text", "number", "single-select", "multi-select"} -> ret = TRUE
         [] TheType \in {"date", "amount"} -> ret = TestWith("between", TheCondition.value)
         [] TheType = "boolean" -> ret = TestWith("is", TheCondition.value)

\* C7 witness: a number field tested with an operator of another type and a
\* numeric value that the record's number differs from.
C7_Witness ==
    /\ call.fn = "testCondition"
    /\ TheType = "number"
    /\ TheCondition.operator \notin OperatorsOf("number")
    /\ TheRaw.t = "number"
    /\ ~TestWith("equals", TheCondition.value)
    /\ ret = TRUE

\* C8 as stated: a malformed comparison value is no constraint: a record
\* with a present, well-formed field value passes a number condition whose
\* value is not numeric, a number-between or amount condition whose only
\* bound is not numeric, and a date before / after / between condition
\* whose only threshold does not parse.
C8_MalformedBoundIsNoConstraint ==
    LET value == TheCondition.value
        operator == TheCondition.operator
        OnlyBound(a, b, Malformed(_)) ==
            \/ Malformed(GetProp(value, a)) /\ GetProp(value, b) = Str("")
            \/ GetProp(value, a) = Str("") /\ Malformed(GetProp(value, b))
    IN  call.fn = "testCondition" =>
        /\ (/\ TheType = "number" /\ TheRaw.t = "number" /\ ~IsNaN(TheRaw)
            /\ operator \in OperatorsOf("number") \ {"between"}
            /\ MalformedNumber(value)) => ret = TRUE
        /\ (/\ \/ TheType = "number" /\ operator = "between"
               \/ TheType = "amount" /\ operator \in OperatorsOf("amount")
            /\ TheRaw.t = "number" /\ ~IsNaN(TheRaw)
            /\ isRangeValue(value)
            /\ OnlyBound("min", "max", MalformedNumber)) => ret = TRUE
        /\ (/\ TheType = "date" /\ TheRaw.t = "string" /\ isValidDate(NewDate(TheRaw))
            /\ isDateRange(value)
            /\ \/ operator \in {"before", "after"} /\ MalformedDate(GetProp(value, "from"))
               \/ operator = "between" /\ OnlyBound("from", "to", MalformedDate))
           => ret = TRUE

\* C9: for a condition on a catalog field, of any type and operator, a
\* record on which the key resolves to undefined or null (a missing path
\* segment included) is rejected by testCondition.
C9_AbsentNeverMatches ==
    (/\ call.fn = "testCondition"
     /\ HasField(TheCondition.fieldKey)
     /\ ~Present(TheRaw))
    => ret = FALSE

\* C9 witness: "not_contains" on address.city was tested on a record that
\* has no address at all.
C9_Witness ==
    /\ call.fn = "testCondition"
    /\ TheCondition.fieldKey = "address.city"
    /\ TheCondition.operator = "not_contains"
    /\ "address" \notin DOMAIN TheEmployee.o
    /\ TheRaw = Undefined
    /\ ret = FALSE

\* C10: a condition on a field key that is not in the catalog is invalid
\* for validateCondition, accepted for every record by testCondition, and,
\* even when flagged isValid, removes no record: filterEmployees returns
\* what it returns for the list without the unknown-field conditions.
C10_UnknownFieldIgnored ==
    LET Known(c) == HasField(c.fieldKey)
    IN  /\ (call.fn = "validateCondition" /\ ~Known(conditions[call.c])) => ret = FALSE
        /\ (call.fn = "testCondition" /\ ~Known(conditions[call.c])) => ret = TRUE
        /\ call.fn = "filterEmployees" =>
              filteredData = filterEmployees(employees, SelectSeq(conditions, Known), now)

\* C10 witness: a list with a valid unknown-field condition and a valid
\* catalog condition was applied and kept some records and dropped others.
C10_Witness ==
    /\ call.fn = "filterEmployees"
    /\ \E i, j \in 1..Len(conditions) :
          /\ conditions[i].isValid /\ ~HasField(conditions[i].fieldKey)
          /\ conditions[j].isValid /\ HasField(conditions[j].fieldKey)
    /\ Len(filteredData) > 0
    /\ Len(filteredData) < Len(employees)

\* a number that is neither NaN nor an infinity
IsFinite(x) == x.t = "number" /\ x.k = "fin"

\* C11 as stated: on a number field with an operator other than "between",
\* validateCondition returns TRUE exactly when the value is not empty and
\* Number(value) is a finite number, whatever the value is (a blank string,
\* "Infinity", a boolean, an array, a range object).
C11_NumberValidIffFinite ==
    (/\ call.fn = "validateCondition"
     /\ TheType = "number"
     /\ TheCondition.operator # "between")
    => ret = (/\ TheCondition.value # Null
              /\ TheCondition.value # Str("")
              /\ IsFinite(Number(TheCondition.value)))

\* C12: on a date field validateCondition returns TRUE for "last_30_days"
\* whatever the value; for "before" and "after" exactly when the value is an
\* object with a "from" entry that is not the empty string; for every other
\* operator exactly when the value is such an object and its "from" or its
\* "to" is not the empty string.
C12_DateValidity ==
    LET value == TheCondition.value
        operator == TheCondition.operator
        IsFromTo == value.t = "object" /\ "from" \in DOMAIN value.o
        NonEmpty(k) == GetProp(value, k) # Str("")
    IN  (call.fn = "validateCondition" /\ TheType = "date") =>
        ret = CASE operator = "last_30_days" -> TRUE
                [] operator \in {"before", "after"} -> IsFromTo /\ NonEmpty("from")
                [] OTHER -> IsFromTo /\ (NonEmpty("from") \/ NonEmpty("to"))

\* C12 witness: "before" was validated with a range whose "from" is empty
\* and whose "to" is filled, and was judged invalid.
C12_Witness ==
    /\ call.fn = "validateCondition"
    /\ TheCondition.fieldKey = "joinDate"
    /\ TheCondition.operator = "before"
    /\ TheCondition.value = DateRange("", "2021-03-14")
    /\ ret = FALSE

\* C20: "last_30_days" accepts a record exactly when its date is a valid
\* date not earlier than the clock reading of this evaluation minus thirty
\* days: a record dated at the evaluation time is accepted, a record dated
\* 31 days before it is rejected.
C20_Last30Days ==
    LET d == NewDate(TheRaw)
    IN  (/\ call.fn = "testCondition"
         /\ TheType = "date"
         /\ TheCondition.operator = "last_30_days"
         /\ Present(TheRaw))
        => /\ ret = (isValidDate(d) /\ d.time >= now - 30 * TicksPerDay)
           /\ (isValidDate(d) /\ d.time = now) => ret = TRUE
           /\ (isValidDate(d) /\ d.time = now - 31 * TicksPerDay) => ret = FALSE

\* C20 witness: the record dated exactly thirty days before the first clock
\* reading was tested after the clock had advanced, and was rejected.
C20_Witness ==
    /\ call.fn = "testCondition"
    /\ TheCondition.fieldKey = "joinDate"
    /\ TheCondition.operator = "last_30_days"
    /\ TheRaw = Str("2021-03-15")
    /\ now > Now0
    /\ ret = FALSE

\* the record dated at the evaluation time was tested and accepted
C20_AtNowWitness ==
    /\ call.fn = "testCondition"
    /\ TheCondition.operator = "last_30_days"
    /\ TheRaw = Str("2021-04-14")
    /\ now = Now0
    /\ ret = TRUE

\* C23: on a date field with operator "between", a record whose date is
\* present and parses matches exactly when it is not earlier than "from"
\* where "from" is supplied and parses, and not later than "to" where "to"
\* is supplied and parses, a record dated on a bound included; on a date
\* field a record whose date is absent or does not parse matches under no
\* operator.
C23_DateBetweenInclusive ==
    LET value == TheCondition.value
        d == NewDate(TheRaw)
        IsFromTo == value.t = "object" /\ "from" \in DOMAIN value.o
        Supplied(k) == /\ IsFromTo
                       /\ GetProp(value, k).t = "string"
                       /\ GetProp(value, k).s # ""
                       /\ isValidDate(ParseDate(GetProp(value, k).s))
        Bound(k) == ParseDate(GetProp(value, k).s).time
    IN  (call.fn = "testCondition" /\ TheType = "date") =>
        /\ (Present(TheRaw) /\ isValidDate(d) /\ TheCondition.operator = "between")
             => ret = (/\ Supplied("from") => d.time >= Bound("from")
                       /\ Supplied("to") => d.time <= Bound("to"))
        /\ (~Present(TheRaw) \/ ~isValidDate(d)) => ret = FALSE

\* C23 witness: a record dated on the upper bound of a "between" range was
\* tested and matched.
C23_Witness ==
    /\ call.fn = "testCondition"
    /\ TheCondition.fieldKey = "joinDate"
    /\ TheCondition.operator = "between"
    /\ TheCondition.value = DateRange("2021-03-14", "2021-03-15")
    /\ TheRaw = Str("2021-03-15")
    /\ ret = TRUE

\* a record whose date does not parse was tested under "between" with no
\* bound supplied, and did not match
C23_UnparseableWitness ==
    /\ call.fn = "testCondition"
    /\ TheCondition.fieldKey = "joinDate"
    /\ TheCondition.operator = "between"
    /\ TheCondition.value = DateRange("", "")
    /\ TheRaw = Str("abc")
    /\ ret = FALSE

\* the field values a record of the dataset can hold for a field type
WellTyped(type) ==
    CASE type \in {"text", "single-select"} ->
            {Str(""), Str(" "), Str("Engineering"), Str("eng"), Str("abc"), Str("3"),
             Str("true"), Str("Infinity")}
      [] type \in {"number", "amount"} -> {Num(-1), Num(0), Num(1), Num(3), Num(5)}
      [] type = "date" -> {Str("2021-03-14"), Str("2021-03-15"), Str("2021-04-14")}
      [] type = "multi-select" -> {Arr(<<>>), StrList(<<"React", "Rust">>)}
      [] type = "boolean" -> {Bool(TRUE), Bool(FALSE)}
      [] OTHER -> {}

\* the base record with the field the key names set to raw
RecordWith(k, raw) ==
    IF k = "address.city"
    THEN WithProp("address", Obj([city |-> raw, state |-> Str("NV")]))
    ELSE WithProp(k, raw)

\* some record with a present, well-typed field value is rejected
Constrains(condition, clock) ==
    \E raw \in WellTyped(FindField(condition.fieldKey).type) :
        ~testCondition(RecordWith(condition.fieldKey, raw), condition, clock)

\* C24 as stated: every condition on a catalog field that validateCondition
\* accepts is rejected by testCondition on some record with a present,
\* well-typed value for that field.
C24_ValidConditionConstrains ==
    (/\ call.fn = "validateCondition"
     /\ HasField(TheCondition.fieldKey)
     /\ ret = TRUE)
    => Constrains(TheCondition, now)

---------------------------------------------------------------------------
(* data/fieldDefinitions.ts: the defaults of a field type                  *)

DEFAULT_OPERATOR ==
    [ty \in FieldTypes |->
        CASE ty = "text" -> "contains"
          [] ty = "number" -> "equals"
          [] ty = "date" -> "between"
          [] ty = "amount" -> "between"
          [] ty = "single-select" -> "is"
          [] ty = "multi-select" -> "in"
          [] ty = "boolean" -> "is"]

DEFAULT_VALUE ==
    [ty \in FieldTypes |->
        CASE ty = "text" -> Str("")
          [] ty = "number" -> Str("")
          [] ty = "date" -> DateRange("", "")
          [] ty = "amount" -> Range("", "")
          [] ty = "single-select" -> Str("")
          [] ty = "multi-select" -> Arr(<<>>)
          [] ty = "boolean" -> Bool(TRUE)]

---------------------------------------------------------------------------
(* JSON.stringify and JSON.parse.  A text is a record                      *)
(*   [kind |-> "text", form |-> "empty" | "malformed" | "json", doc |-> v] *)
(* where doc is the value a JSON text denotes.                             *)

\* the value that the text written for v denotes: a number that is not
\* finite is written null, an undefined array element is written null, an
\* undefined property is left out
RECURSIVE ToJSON(_)
ToJSON(v) ==
    CASE v.t = "number" -> (IF v.k = "fin" THEN v ELSE Null)
      [] v.t = "array" ->
            Arr([i \in 1..Len(v.a) |->
                    IF v.a[i] = Undefined THEN Null ELSE ToJSON(v.a[i])])
      [] v.t = "object" ->
            Obj([k \in {f \in DOMAIN v.o : v.o[f] # Undefined} |-> ToJSON(v.o[k])])
      [] OTHER -> v

JsonText(v) == [kind |-> "text", form |-> "json", doc |-> v]
EmptyText == [kind |-> "text", form |-> "empty", doc |-> Null]
MalformedText == [kind |-> "text", form |-> "malformed", doc |-> Null]

\* localStorage.getItem throws (storage access denied)
Denied == [kind |-> "denied"]

JSONStringify(v) == JsonText(ToJSON(v))

\* the parsed value, or ok = FALSE where JSON.parse throws a SyntaxError
JSONParse(text) ==
    IF text.form = "json" THEN [ok |-> TRUE, v |-> text.doc]
    ELSE [ok |-> FALSE, v |-> Undefined]

\* JSON.parse(JSON.stringify(DEFAULT_VALUE[type])): a fresh deep copy
getDefaultValue(type) == JSONParse(JSONStringify(DEFAULT_VALUE[type])).v

\* mutant of getDefaultOperator: the default of the text type for every type
getDefaultOperator_OfText(type) == DEFAULT_OPERATOR["text"]

getDefaultOperator(type) == DEFAULT_OPERATOR[type]

---------------------------------------------------------------------------
(* hooks/useFilters: conditions as JavaScript objects.  A condition of     *)
(* the collection is a record [id, fieldKey, operator, value, isValid];    *)
(* an id, fieldKey or operator that the object lacks, or that is not a     *)
(* string, is written Absent: it equals no id, key or operator tag that    *)
(* the program produces.                                                   *)

Absent == "<undefined>"

StrOrUndefined(s) == IF s = Absent THEN Undefined ELSE Str(s)

\* the object that JSON.stringify sees for a condition
ConditionToJS(c) ==
    Obj([id |-> StrOrUndefined(c.id),
         fieldKey |-> StrOrUndefined(c.fieldKey),
         operator |-> StrOrUndefined(c.operator),
         value |-> c.value,
         isValid |-> Bool(c.isValid)])

ConditionsToJS(cs) == Arr([i \in 1..Len(cs) |-> ConditionToJS(cs[i])])

PropString(v, k) ==
    IF GetProp(v, k).t = "string" THEN GetProp(v, k).s ELSE Absent

\* the condition that "{ ...c }" holds for a parsed array element c; a
\* number, boolean or string spreads to an object without condition fields
SpreadCondition(v) ==
    Cond(PropString(v, "id"), PropString(v, "fieldKey"), PropString(v, "operator"),
         IF v.t = "object" THEN GetProp(v, "value") ELSE Undefined,
         IF v.t = "object" THEN Boolean(GetProp(v, "isValid")) ELSE FALSE)

\* mutant of loadPersistedConditions: the stored flags are trusted
loadPersistedConditions_KeepFlags(store) ==
    IF store.kind # "text" \/ store.form # "json" \/ store.doc.t # "array" THEN <<>>
    ELSE IF \E i \in 1..Len(store.doc.a) : store.doc.a[i] = Null THEN <<>>
    ELSE [i \in 1..Len(store.doc.a) |-> SpreadCondition(store.doc.a[i])]

\* "isValid: validateCondition(c)" / "updated.isValid = validateCondition(updated)"
Revalidated(c) == [c EXCEPT !.isValid = validateCondition(c)]

\* what the try block of loadPersistedConditions makes of JSON.parse(raw)
LoadParsed(parsed) ==
    IF ~parsed.ok THEN <<>>                    \* SyntaxError
    ELSE IF parsed.v.t # "array" THEN <<>>     \* parsed.map is not a function
    ELSE IF \E i \in 1..Len(parsed.v.a) : parsed.v.a[i] = Null
         THEN <<>>                             \* validateCondition(null) throws
    ELSE [i \in 1..Len(parsed.v.a) |-> Revalidated(SpreadCondition(parsed.v.a[i]))]

loadPersistedConditions(store) ==
    IF store.kind = "denied" THEN <<>>                  \* getItem throws
    ELSE IF store.kind = "none" \/ store.form = "empty" THEN <<>>    \* !raw
    ELSE LoadParsed(JSONParse(store))

\* `filter-${Date.now()}-${++idCounter}`, with the counter already advanced
genId(clock, counter) == "filter-" \o NatToString(clock) \o "-" \o NatToString(counter)

addCondition(prev, id) ==
    LET field == FIELD_DEFINITIONS[1]
    IN  Append(prev, Cond(id, field.key, getDefaultOperator(field.type),
                          getDefaultValue(field.type), FALSE))

\* "{ ...c, ...changes }" on one field
Merged(c, changes, k) == IF k \in DOMAIN changes THEN changes[k] ELSE c[k]

\* "{ ...c, ...changes }"
MergeChanges(c, changes) ==
    Cond(c.id, Merged(c, changes, "fieldKey"), Merged(c, changes, "operator"),
         Merged(c, changes, "value"), c.isValid)

\* mutant of ApplyFieldRule: a new field of the old field's type keeps the
\* operator and the value
ApplyFieldRule_OtherTypeOnly(c, changes, merged) ==
    IF /\ "fieldKey" \in DOMAIN changes
       /\ changes.fieldKey # c.fieldKey
       /\ HasField(changes.fieldKey)
       /\ ~(HasField(c.fieldKey)
            /\ FindField(c.fieldKey).type = FindField(changes.fieldKey).type)
    THEN [merged EXCEPT
             !.operator = getDefaultOperator(FindField(changes.fieldKey).type),
             !.value = getDefaultValue(FindField(changes.fieldKey).type)]
    ELSE merged

\* "When field changes -> reset operator + value to new field's defaults"
ApplyFieldRule(c, changes, merged) ==
    IF /\ "fieldKey" \in DOMAIN changes
       /\ changes.fieldKey # c.fieldKey
       /\ HasField(changes.fieldKey)
    THEN [merged EXCEPT
             !.operator = getDefaultOperator(FindField(changes.fieldKey).type),
             !.value = getDefaultValue(FindField(changes.fieldKey).type)]
    ELSE merged

TypeOfKey(key) == IF HasField(key) THEN FindField(key).type ELSE "none"

\* mutant of ApplyOperatorRule: a date field gets the default value only
\* when the change is to or from "last_30_days"
ApplyOperatorRule_DateOnlyLast30(c, changes, updated, type) ==
    IF ~("operator" \in DOMAIN changes /\ changes.operator # c.operator) THEN updated
    ELSE CASE type = "number" ->
                (IF (c.operator = "between") # (changes.operator = "between")
                 THEN [updated EXCEPT !.value = getDefaultValue("number")]
                 ELSE updated)
           [] type = "date" ->
                (IF "last_30_days" \in {c.operator, changes.operator}
                 THEN [updated EXCEPT !.value = getDefaultValue("date")]
                 ELSE updated)
           [] OTHER -> updated

\* "When operator changes": a number field between "between" and a
\* single-value operator, and a date field, get the default value
ApplyOperatorRule(c, changes, updated, type) ==
    IF ~("operator" \in DOMAIN changes /\ changes.operator # c.operator) THEN updated
    ELSE CASE type = "number" ->
                (IF (c.operator = "between") # (changes.operator = "between")
                 THEN [updated EXCEPT !.value = getDefaultValue("number")]
                 ELSE updated)
           [] type = "date" -> [updated EXCEPT !.value = getDefaultValue("date")]
           [] OTHER -> updated

ApplyRules(c, changes, afterField) ==
    ApplyOperatorRule(c, changes, afterField, TypeOfKey(afterField.fieldKey))

\* mutant of UpdateOne: the flag is left as it was
UpdateOne_KeepFlag(c, changes) ==
    ApplyRules(c, changes, ApplyFieldRule(c, changes, MergeChanges(c, changes)))

\* the callback of prev.map in updateCondition, on the condition with the id
UpdateOne(c, changes) ==
    Revalidated(ApplyRules(c, changes,
                           ApplyFieldRule(c, changes, MergeChanges(c, changes))))

\* mutant of updateCondition: the changes are applied to every condition
updateCondition_AllRows(prev, id, changes) ==
    [i \in 1..Len(prev) |-> UpdateOne(prev[i], changes)]

updateCondition(prev, id, changes) ==
    [i \in 1..Len(prev) |->
        IF prev[i].id # id THEN prev[i] ELSE UpdateOne(prev[i], changes)]

removeCondition(prev, id) ==
    LET Other(c) == c.id # id IN SelectSeq(prev, Other)

---------------------------------------------------------------------------
(* hooks/useSortedData                                                     *)

\* mutant of toggleSort: a new key keeps the direction of the old one
toggleSort_KeepDirection(prev, key) ==
    IF prev.key # key THEN [key |-> key, dir |-> prev.dir]
    ELSE [key |-> key,
          dir |-> IF prev.dir = "asc" THEN "desc"
                  ELSE IF prev.dir = "desc" THEN "none" ELSE "asc"]

\* the updater of setSort in toggleSort; the direction null is written "none"
toggleSort(prev, key) ==
    IF prev.key # key THEN [key |-> key, dir |-> "asc"]
    ELSE [key |-> key,
          dir |-> IF prev.dir = "asc" THEN "desc"
                  ELSE IF prev.dir = "desc" THEN "none" ELSE "asc"]

\* the characters of the sample names in collation order: blank and
\* punctuation before digits before letters
CollationChars == " -.@0123456789abcdefghijklmnopqrstuvwxyz"

CollationRank ==
    [c \in {CharAt(CollationChars, i) : i \in 1..Len(CollationChars)} |->
        CHOOSE i \in 1..Len(CollationChars) : CharAt(CollationChars, i) = c]

\* String.prototype.localeCompare on lower-case strings over CollationChars:
\* -1, 0 or 1 by the first position that differs, a proper prefix first
RECURSIVE localeCompare(_, _)
localeCompare(x, y) ==
    IF Len(x) = 0 /\ Len(y) = 0 THEN 0
    ELSE IF Len(x) = 0 THEN -1
    ELSE IF Len(y) = 0 THEN 1
    ELSE LET rx == CollationRank[CharAt(x, 1)]
             ry == CollationRank[CharAt(y, 1)]
         IN  IF rx < ry THEN -1
             ELSE IF rx > ry THEN 1
             ELSE localeCompare(SubSeq(x, 2, Len(x)), SubSeq(y, 2, Len(y)))

\* the sign of cmp for two field values; values of different types, and
\* values that are not strings, numbers or booleans, compare as equal
compareValues(av, bv) ==
    CASE av.t = "string" /\ bv.t = "string" ->
            localeCompare(toLowerCase(av.s), toLowerCase(bv.s))
      [] av.t = "number" /\ bv.t = "number" ->
            \* av - bv; NaN (and Infinity - Infinity) counts as 0
            (IF NumLt(av, bv) THEN -1 ELSE IF NumLt(bv, av) THEN 1 ELSE 0)
      [] av.t = "boolean" /\ bv.t = "boolean" ->
            Number(av).n - Number(bv).n
      [] OTHER -> 0

\* sort.dir === 'asc' ? cmp : -cmp
Directed(cmp, dir) == IF dir = "asc" THEN cmp ELSE -cmp

\* mutant of compare: the direction is not looked at
compare_IgnoresDirection(a, b, key, dir) ==
    compareValues(getNestedValue(a, key), getNestedValue(b, key))

\* the sign of the comparator handed to Array.prototype.sort
compare(a, b, key, dir) ==
    Directed(compareValues(getNestedValue(a, key), getNestedValue(b, key)), dir)

Reverse(a) == [i \in 1..Len(a) |-> a[Len(a) + 1 - i]]

\* Array.prototype.sort on a short array: the leading run is found (and
\* reversed when it descends strictly), then the remaining elements are
\* inserted one by one at the place a binary search gives.  With a
\* comparator that is a consistent order this is the stable sort.
RunBreaks(descending, order) ==
    (descending /\ order >= 0) \/ (~descending /\ order < 0)

RECURSIVE RunEnd(_, _, _, _, _)
RunEnd(a, key, dir, descending, idx) ==
    IF idx > Len(a) THEN Len(a)
    ELSE IF RunBreaks(descending, compare(a[idx], a[idx - 1], key, dir))
         THEN idx - 1
         ELSE RunEnd(a, key, dir, descending, idx + 1)

MakeRun(a, descending, run) ==
    [run |-> run,
     a |-> IF descending
           THEN Reverse(SubSeq(a, 1, run)) \o SubSeq(a, run + 1, Len(a))
           ELSE a]

CountRun(a, key, dir, descending) ==
    MakeRun(a, descending, RunEnd(a, key, dir, descending, 3))

CountAndMakeRun(a, key, dir) ==
    CountRun(a, key, dir, compare(a[2], a[1], key, dir) < 0)

RECURSIVE BinarySearch(_, _, _, _, _, _)
BinarySearch(a, key, dir, pivot, left, right) ==
    IF left >= right THEN left
    ELSE IF compare(pivot, a[left + ((right - left) \div 2)], key, dir) < 0
         THEN BinarySearch(a, key, dir, pivot, left, left + ((right - left) \div 2))
         ELSE BinarySearch(a, key, dir, pivot, left + ((right - left) \div 2) + 1, right)

\* the element at start moved to pos, the elements between shifted up
InsertAt(a, start, pos) ==
    SubSeq(a, 1, pos - 1) \o <<a[start]>> \o SubSeq(a, pos, start - 1)
    \o SubSeq(a, start + 1, Len(a))

RECURSIVE BinaryInsertionSort(_, _, _, _)
BinaryInsertionSort(a, key, dir, start) ==
    IF start > Len(a) THEN a
    ELSE BinaryInsertionSort(
             InsertAt(a, start, BinarySearch(a, key, dir, a[start], 1, start)),
             key, dir, start + 1)

SortFromRun(made, key, dir) == BinaryInsertionSort(made.a, key, dir, made.run + 1)

ArraySort(a, key, dir) ==
    IF Len(a) < 2 THEN a ELSE SortFromRun(CountAndMakeRun(a, key, dir), key, dir)

\* mutant of sortedDataOf: without a direction the list is sorted ascending
sortedDataOf_AlwaysSorts(data, srt) ==
    ArraySort(data, srt.key, IF srt.dir = "none" THEN "asc" ELSE srt.dir)

\* the useMemo of sortedData
sortedDataOf(data, srt) ==
    IF srt.dir = "none" THEN data ELSE ArraySort(data, srt.key, srt.dir)

---------------------------------------------------------------------------
(* hooks/useFilters as a state machine: the page is loaded with some       *)
(* stored item, the hook mounts, and the mutators are called               *)

Person(id, name, isActive, projects, joinDate) ==
    Obj([id |-> Num(id), name |-> Str(name), isActive |-> Bool(isActive),
         projects |-> Num(projects), joinDate |-> Str(joinDate)])

\* data/employees.ts (the fields that the sample conditions look at)
EMPLOYEES ==
    << Person(1, "John Smith", TRUE, 3, "2021-03-15"),
       Person(2, "Sarah Johnson", TRUE, 2, "2020-07-10") >>

SavedStale == Cond("filter-1-1", "projects", "between", Str("3"), TRUE)
SavedUnflagged == Cond("filter-1-2", "name", "contains", Str("jo"), FALSE)
SavedUnknownField == Cond("filter-1-3", "nickname", "equals", Str("Al"), TRUE)

EmptyObject == Obj([k \in {} |-> Null])

\* the elements of a stored array
StoredElements ==
    {Null, Num(1), Str("ab"), EmptyObject,
     ToJSON(ConditionToJS(SavedStale)),
     ToJSON(ConditionToJS(SavedUnflagged)),
     ToJSON(ConditionToJS(SavedUnknownField))}

MaxStored == 2

\* what the storage item may hold when the page is loaded
StoredPool ==
    {NoItem, Denied, EmptyText, MalformedText,
     JsonText(Null), JsonText(Num(5)), JsonText(Str("ab")), JsonText(EmptyObject)}
    \cup {JsonText(Arr(a)) : a \in SeqsUpTo(StoredElements, MaxStored)}

\* the stored items from which the mutators are exercised
SessionPool ==
    {NoItem, JSONStringify(ConditionsToJS(<<SavedStale>>))}

\* the changes handed to updateCondition
ChangePool ==
    {[fieldKey |-> "projects"], [fieldKey |-> "joinDate"],
     [operator |-> "between"], [operator |-> "last_30_days"],
     [value |-> Str("3")]}

MaxIds == 2

HookInit ==
    /\ employees = EMPLOYEES
    /\ conditions = <<>>
    /\ now = Now0
    /\ call = NoCall
    /\ ret = FALSE
    /\ filteredData = <<>>
    /\ storage \in SessionPool
    /\ storageFails \in BOOLEAN
    /\ hook = "unmounted"
    /\ idCounter = 0
    /\ sort = InitialSort
    /\ sortedData = <<>>
    /\ sortLog = <<InitialSort>>
    /\ UiUnused

\* mutant of persistEffect: the exception of setItem is not caught
persistEffect_NoCatch(store, fails, conds) ==
    [storage |-> IF fails THEN store ELSE JSONStringify(ConditionsToJS(conds)),
     threw |-> fails]

\* the effect that runs after each change of the collection:
\* try { localStorage.setItem(STORAGE_KEY, JSON.stringify(conditions)) } catch {}
persistEffect(store, fails, conds) ==
    [storage |-> IF fails THEN store ELSE JSONStringify(ConditionsToJS(conds)),
     threw |-> FALSE]

\* mutant of activeCount: every condition is counted
activeCount_CountsAll(conds) == Len(conds)

\* conditions.filter((c) => c.isValid).length
activeCount(conds) == Cardinality({i \in 1..Len(conds) : conds[i].isValid})

\* the render that follows a change of the collection: the memoised lists
\* are recomputed and the persist effect runs; an exception that leaves the
\* effect takes the component tree down
Rerender ==
    /\ UNCHANGED <<employees, now, ret, storageFails, sort, sortLog>>
    /\ filteredData' = filterEmployees(employees, conditions', now)
    /\ sortedData' = sortedDataOf(filteredData', sort)
    /\ LET effect == persistEffect(storage, storageFails, conditions')
       IN  /\ storage' = effect.storage
           /\ hook' = IF effect.threw THEN "crashed" ELSE "mounted"

\* a render that no engine call of the model goes with
Commit == UNCHANGED call /\ Rerender

\* useState(loadPersistedConditions) on the first render
Mount ==
    /\ hook = "unmounted"
    /\ conditions' = loadPersistedConditions(storage)
    /\ UNCHANGED idCounter
    /\ UNCHANGED uiVars
    /\ Commit

AddCondition ==
    /\ hook = "mounted"
    /\ idCounter < MaxIds
    /\ Len(conditions) < MaxConditions
    /\ idCounter' = idCounter + 1
    /\ conditions' = addCondition(conditions, genId(now, idCounter'))
    /\ UNCHANGED uiVars
    /\ Commit

UpdateCondition(id, changes) ==
    /\ hook = "mounted"
    /\ conditions' = updateCondition(conditions, id, changes)
    /\ UNCHANGED idCounter
    /\ UNCHANGED uiVars
    /\ Commit

RemoveCondition(id) ==
    /\ hook = "mounted"
    /\ conditions' = removeCondition(conditions, id)
    /\ UNCHANGED idCounter
    /\ UNCHANGED uiVars
    /\ Commit

ClearAll ==
    /\ hook = "mounted"
    /\ conditions' = <<>>
    /\ UNCHANGED idCounter
    /\ UNCHANGED uiVars
    /\ Commit

\* the ids that the rows on screen pass to the mutators
RowIds == {conditions[i].id : i \in 1..Len(conditions)}

HookNext ==
    \/ Mount
    \/ AddCondition
    \/ \E id \in RowIds : \E changes \in ChangePool : UpdateCondition(id, changes)
    \/ \E id \in RowIds : RemoveCondition(id)
    \/ ClearAll

HookSpec == HookInit /\ [][HookNext]_vars

\* the page load alone, from every stored item
LoadInit ==
    /\ employees = EMPLOYEES
    /\ conditions = <<>>
    /\ now = Now0
    /\ call = NoCall
    /\ ret = FALSE
    /\ filteredData = <<>>
    /\ storage \in StoredPool
    /\ storageFails \in BOOLEAN
    /\ storage = Denied => storageFails
    /\ hook = "unmounted"
    /\ idCounter = 0
    /\ sort = InitialSort
    /\ sortedData = <<>>
    /\ sortLog = <<InitialSort>>
    /\ UiUnused

LoadNext == Mount

LoadSpec == LoadInit /\ [][LoadNext]_vars

---------------------------------------------------------------------------
(* The updaters of updateCondition and removeCondition, each applied once  *)
(* to a collection the hook can hold                                       *)

Fresh(id) == Cond(id, "name", "contains", Str(""), FALSE)

MutText == Cond("m1", "name", "equals", Str("jo"), TRUE)
MutSingle == Cond("m2", "projects", "gt", Str("3"), TRUE)
MutBetween == Cond("m2", "projects", "between", Range("1", "5"), TRUE)
MutDate == Cond("m3", "joinDate", "before", DateRange("2021-03-15", ""), TRUE)
MutSelect == Cond("m3", "department", "is", Str("Design"), TRUE)
MutUnknown == Cond("m4", "nickname", "equals", Str("Al"), FALSE)
\* a second condition under the id of MutText, as a stored list can hold
MutTwin == Cond("m1", "joinDate", "after", DateRange("2021-03-15", ""), TRUE)
\* a condition whose field was just set to the date field: it holds the
\* default operator and the default value of the type
FreshDate(id) ==
    Cond(id, "joinDate", getDefaultOperator("date"), getDefaultValue("date"), FALSE)

\* the collections the updaters are applied to
MutatorLists ==
    {<<MutText>>, <<MutSingle>>, <<MutBetween>>, <<MutDate>>, <<MutSelect>>,
     <<MutUnknown>>, <<MutText, MutSingle>>, <<MutBetween, MutText>>,
     <<MutDate, MutText>>, <<Fresh("m1"), Fresh("m2")>>, <<MutText, MutTwin>>,
     <<FreshDate("m1"), FreshDate("m2")>>,
     <<MutSingle, MutText, MutSelect>>}

\* the changes handed to updateCondition
MutatorChanges ==
    {[fieldKey |-> k] : k \in {"name", "email", "projects", "performanceRating",
                               "joinDate", "department", "nickname"}}
    \cup {[operator |-> op] : op \in {"equals", "gt", "between", "before", "after",
                                      "last_30_days", "contains", "is_not"}}
    \cup {[value |-> Str("3")], [value |-> Range("1", "5")],
          [value |-> DateRange("2021-03-15", "")]}
    \cup {[fieldKey |-> "email", operator |-> "equals", value |-> Str("x")],
          [fieldKey |-> "performanceRating", operator |-> "between"],
          [fieldKey |-> "nickname", operator |-> "gt", value |-> Str("3")],
          [operator |-> "between", value |-> Range("1", "5")],
          [operator |-> "gt", value |-> Str("7")],
          [operator |-> "after", value |-> DateRange("2021-03-16", "")]}

\* the ids handed to the updaters: those of the rows, and one of no row
MutatorIds == RowIds \cup {"m9"}

MutatorInit ==
    /\ employees = EMPLOYEES
    /\ conditions \in MutatorLists
    /\ now = Now0
    /\ call = NoCall
    /\ ret = FALSE
    /\ filteredData = filterEmployees(employees, conditions, now)
    /\ storage = JSONStringify(ConditionsToJS(conditions))
    /\ storageFails = FALSE
    /\ hook = "mounted"
    /\ idCounter = 0
    /\ sort = InitialSort
    /\ sortedData = sortedDataOf(filteredData, sort)
    /\ sortLog = <<InitialSort>>
    /\ UiUnused

\* updateCondition(id, changes), the arguments kept in call
CallUpdateCondition(id, changes) ==
    /\ hook = "mounted"
    /\ call = NoCall
    /\ call' = [fn |-> "updateCondition", e |-> 0, c |-> 0,
                id |-> id, changes |-> changes]
    /\ conditions' = updateCondition(conditions, id, changes)
    /\ UNCHANGED idCounter
    /\ UNCHANGED uiVars
    /\ Rerender

\* removeCondition(id), the argument kept in call
CallRemoveCondition(id) ==
    /\ hook = "mounted"
    /\ call = NoCall
    /\ call' = [fn |-> "removeCondition", e |-> 0, c |-> 0, id |-> id]
    /\ conditions' = removeCondition(conditions, id)
    /\ UNCHANGED idCounter
    /\ UNCHANGED uiVars
    /\ Rerender

MutatorNext ==
    \/ \E id \in MutatorIds : \E changes \in MutatorChanges :
          CallUpdateCondition(id, changes)
    \/ \E id \in MutatorIds : CallRemoveCondition(id)

MutatorSpec == MutatorInit /\ [][MutatorNext]_vars

---------------------------------------------------------------------------
(* Claims about the collection of conditions                               *)

\* C13: in every state that the mutators reach from an empty or a loaded
\* collection, the isValid flag of every condition of the collection is
\* what validateCondition returns for that condition; the freshly added
\* condition, whose flag is written FALSE without a call, included.
C13_FlagIsValidatorResult ==
    hook = "mounted" =>
        \A i \in 1..Len(conditions) :
            conditions[i].isValid = validateCondition(conditions[i])

\* C13 witness: the loaded condition, stored as valid, is flagged invalid,
\* and a condition added after it has been updated into a valid one.
C13_Witness ==
    /\ hook = "mounted"
    /\ Len(conditions) = 2
    /\ conditions[1].id = SavedStale.id
    /\ SavedStale.isValid /\ ~conditions[1].isValid
    /\ conditions[2].id = genId(Now0, 1)
    /\ conditions[2].isValid

UpdateStep == \E id \in RowIds : \E changes \in ChangePool : UpdateCondition(id, changes)
RemoveStep == \E id \in RowIds : RemoveCondition(id)

\* C14: activeCount is the number of conditions whose flag is TRUE; a call
\* of updateCondition keeps the length of the collection and the position
\* of every condition, valid or not; the collection gets shorter only by
\* removeCondition or clearAll.
C14_ActiveCountAndShrinking ==
    [][/\ hook' = "mounted" =>
             LET Flagged(c) == c.isValid
             IN  activeCount(conditions') = Len(SelectSeq(conditions', Flagged))
       /\ UpdateStep =>
             /\ Len(conditions') = Len(conditions)
             /\ \A i \in 1..Len(conditions) : conditions'[i].id = conditions[i].id
       /\ Len(conditions') < Len(conditions) => (RemoveStep \/ ClearAll)]_vars

\* C14 witness: two conditions, the first (turned invalid by the change of
\* its field) still in first place before a valid one; one is counted.
C14_Witness ==
    /\ hook = "mounted"
    /\ Len(conditions) = 2
    /\ conditions[1].fieldKey = "projects" /\ ~conditions[1].isValid
    /\ conditions[1].id = genId(Now0, 1)
    /\ conditions[2].isValid
    /\ activeCount(conditions) = 1

\* C19: in a session in which writing to storage fails, no error reaches
\* the caller (the hook is mounted after the first render and after every
\* mutator call), the stored item is still the one found at page load, and
\* every mutator is enabled and takes effect: addCondition (up to the
\* bounds of the model) appends a condition, clearAll empties the
\* collection, removeCondition removes the condition with the id and
\* updateCondition writes the new value into it.
C19_WriteFailureIsSilent ==
    (storageFails /\ hook # "unmounted") =>
        /\ hook = "mounted"
        /\ storage \in SessionPool
        /\ ENABLED (ClearAll /\ hook' = "mounted" /\ conditions' = <<>>)
        /\ (idCounter < MaxIds /\ Len(conditions) < MaxConditions) =>
              ENABLED (/\ AddCondition
                       /\ hook' = "mounted"
                       /\ Len(conditions') = Len(conditions) + 1)
        /\ \A id \in RowIds :
              /\ ENABLED (/\ RemoveCondition(id)
                          /\ hook' = "mounted"
                          /\ \A i \in 1..Len(conditions') : conditions'[i].id # id)
              /\ ENABLED (/\ UpdateCondition(id, [value |-> Str("3")])
                          /\ hook' = "mounted"
                          /\ \E i \in 1..Len(conditions') :
                                /\ conditions'[i].id = id
                                /\ conditions'[i].value = Str("3"))

\* C19 witness: nothing could be written, and the collection holds two
\* added conditions, one of them updated into a valid one.
C19_Witness ==
    /\ storageFails
    /\ hook = "mounted"
    /\ storage = NoItem
    /\ Len(conditions) = 2
    /\ \E i \in 1..2 : conditions[i].isValid

\* a stored item that is the text of a list of condition objects
IsConditionObject(v) ==
    /\ v.t = "object"
    /\ DOMAIN v.o = {"id", "fieldKey", "operator", "value", "isValid"}
    /\ v.o.id.t = "string" /\ v.o.fieldKey.t = "string" /\ v.o.operator.t = "string"
    /\ v.o.isValid.t = "boolean"

IsConditionList(store) ==
    /\ store.kind = "text"
    /\ store.form = "json"
    /\ store.doc.t = "array"
    /\ \A i \in 1..Len(store.doc.a) : IsConditionObject(store.doc.a[i])

\* C18 as stated: loading never lets an error out; when the stored item is
\* missing, cannot be parsed or is not the text of a list of condition
\* objects the initial collection is empty, and otherwise it is the stored
\* list with every flag recomputed by validateCondition.
C18_LoadFallsBackToEmpty ==
    [][(hook = "unmounted" /\ hook' # "unmounted") =>
          /\ hook' = "mounted"
          /\ IF IsConditionList(storage)
             THEN /\ Len(conditions') = Len(storage.doc.a)
                  /\ \A i \in 1..Len(conditions') :
                        /\ conditions'[i].id = storage.doc.a[i].o.id.s
                        /\ conditions'[i].fieldKey = storage.doc.a[i].o.fieldKey.s
                        /\ conditions'[i].operator = storage.doc.a[i].o.operator.s
                        /\ conditions'[i].value = storage.doc.a[i].o.value
                        /\ conditions'[i].isValid = validateCondition(conditions'[i])
             ELSE conditions' = <<>>]_vars

---------------------------------------------------------------------------
(* hooks/useSortedData as a state machine: the column headers are clicked  *)
(* on a filtered list                                                      *)

SortA == Person(2, "Al Smith", FALSE, 3, "2021-03-15")
SortB == Person(1, "bo Lee", TRUE, 2, "2020-07-10")
SortC == Person(3, "cy Young", TRUE, 5, "2021-04-14")
SortD == Person(4, "al smith", FALSE, 3, "2021-03-15")

SortPool == {SortA, SortB, SortC, SortD}
SortSample == <<SortA, SortC, SortB>>

\* a record without the property "projects"
SortNoProjects ==
    Obj([id |-> Num(8), name |-> Str("di Ray"), isActive |-> Bool(TRUE),
         joinDate |-> Str("2021-03-15")])
\* a list in which "projects" resolves to a number on three records and to
\* undefined on one
SortMixed ==
    <<Person(5, "ed Poe", TRUE, 7, "2021-03-15"),
      Person(6, "fay Wu", TRUE, 6, "2021-03-15"),
      SortNoProjects,
      Person(7, "gus Orr", FALSE, 5, "2021-03-15")>>

\* the columns whose header is clicked
SortKeys == {"id", "name", "isActive", "projects", "nickname"}

CondNameAl == Cond("c8", "name", "contains", Str("al"), TRUE)
CondNameOff == Cond("c9", "name", "contains", Str(""), FALSE)

MaxClicks == 3

SortInit ==
    /\ employees \in SeqsUpTo(SortPool, MaxEmployees) \cup {SortSample, SortMixed}
    /\ conditions \in {<<>>, <<CondNameOff>>, <<CondNameAl>>}
    /\ now = Now0
    /\ call = NoCall
    /\ ret = FALSE
    /\ filteredData = filterEmployees(employees, conditions, now)
    /\ storage = JSONStringify(ConditionsToJS(conditions))
    /\ storageFails = FALSE
    /\ hook = "mounted"
    /\ idCounter = 0
    /\ sort = InitialSort
    /\ sortedData = sortedDataOf(filteredData, sort)
    /\ sortLog = <<InitialSort>>
    /\ UiUnused

ToggleSort(key) ==
    /\ Len(sortLog) <= MaxClicks
    /\ sort' = toggleSort(sort, key)
    /\ sortLog' = Append(sortLog, sort')
    /\ sortedData' = sortedDataOf(filteredData, sort')
    /\ UNCHANGED <<engineVars, hookVars, uiVars>>

SortNext == \E key \in SortKeys : ToggleSort(key)

SortSpec == SortInit /\ [][SortNext]_vars

---------------------------------------------------------------------------
(* Claims about the sort configuration and the sorted list                 *)

C15_OtherKeyWitness ==
    \E i \in 1..(Len(sortLog) - 1) :
        /\ sortLog[i].dir = "desc"
        /\ sortLog[i + 1].key # sortLog[i].key
        /\ sortLog[i + 1].dir = "asc"

\* no two records of the list compare as equal on the key
StrictlyComparable(data, key) ==
    \A i, j \in 1..Len(data) : i # j => compare(data[i], data[j], key, "asc") # 0

\* C16: on a list whose values under the key are strictly comparable, the
\* ascending order reversed is the descending order.
C16_DescIsAscReversed ==
    StrictlyComparable(filteredData, sort.key) =>
        /\ sort.dir = "asc" =>
              Reverse(sortedData)
                 = sortedDataOf(filteredData, [key |-> sort.key, dir |-> "desc"])
        /\ sort.dir = "desc" =>
              sortedData
                 = Reverse(sortedDataOf(filteredData, [key |-> sort.key, dir |-> "asc"]))

\* C16 witness: the three-record sample is shown by name, descending, and
\* that is neither the input order nor the ascending order.
C16_Witness ==
    /\ filteredData = SortSample
    /\ sort = [key |-> "name", dir |-> "desc"]
    /\ sortedData = <<SortC, SortB, SortA>>

\* C17: with direction none the sorted list is the filtered list as it is,
\* and with no valid condition either it is the dataset in its own order.
C17_NoneKeepsInputOrder ==
    sort.dir = "none" =>
        /\ sortedData = filteredData
        /\ (\A i \in 1..Len(conditions) : ~conditions[i].isValid)
              => sortedData = employees

\* C17 witness: direction none on "name", no valid condition, and a dataset
\* that is not in ascending order of name.
C17_Witness ==
    /\ sort = [key |-> "name", dir |-> "none"]
    /\ conditions = <<CondNameOff>>
    /\ employees = SortSample
    /\ sortedData = SortSample
    /\ sortedDataOf(employees, [key |-> "name", dir |-> "asc"]) # employees

\* the rearrangements of 1..n
Rearrangements(n) == {p \in [1..n -> 1..n] : \A i, j \in 1..n : p[i] = p[j] => i = j}

\* out holds the records of data, each at the place p gives it
Places(data, out, p) == \A i \in 1..Len(data) : out[p[i]] = data[i]

\* p keeps the order of any two records of data that compare as equal
KeepsTies(data, key, p) ==
    \A i, j \in 1..Len(data) :
        (i < j /\ compare(data[i], data[j], key, "asc") = 0) => p[i] < p[j]

\* C26 as stated: the sorted list is a rearrangement of the list it is
\* computed from, in which any two records whose values under the key
\* compare as equal (the same value, values of different types, or values
\* that do not resolve) stay in the order they had, in either direction; so
\* under a key that resolves on no record it is the list itself.
C26_StablePermutation ==
    /\ Len(sortedData) = Len(filteredData)
    /\ sort.dir # "none" =>
          \E p \in Rearrangements(Len(filteredData)) :
              /\ Places(filteredData, sortedData, p)
              /\ KeepsTies(filteredData, sort.key, p)
    /\ (\A i \in 1..Len(filteredData) :
            getNestedValue(filteredData[i], sort.key) = Undefined)
          => sortedData = filteredData

\* the part of C26 that holds: the sorted list is a rearrangement, a key
\* that resolves on no record gives the list itself, and ties keep their
\* order in a list whose values under the key are all of one type
C26_Part_Permutation ==
    /\ Len(sortedData) = Len(filteredData)
    /\ \E p \in Rearrangements(Len(filteredData)) :
          /\ Places(filteredData, sortedData, p)
          /\ (\A i, j \in 1..Len(filteredData) :
                 getNestedValue(filteredData[i], sort.key).t
                    = getNestedValue(filteredData[j], sort.key).t)
               => (sort.dir # "none" => KeepsTies(filteredData, sort.key, p))
    /\ (\A i \in 1..Len(filteredData) :
            getNestedValue(filteredData[i], sort.key) = Undefined)
          => sortedData = filteredData

---------------------------------------------------------------------------
(* Claims about the updaters (specification MutatorSpec)                   *)

\* the step is a call of updateCondition
UpdateCall == call.fn = "none" /\ call'.fn = "updateCondition"

\* the step is a call of removeCondition
RemoveCall == call.fn = "none" /\ call'.fn = "removeCondition"

\* what "{ ...c, ...changes }" leaves in property k
Carried(c, changes, k) == IF k \in DOMAIN changes THEN changes[k] ELSE c[k]

\* the changes name a field other than the condition's
FieldChanges(c, changes) ==
    "fieldKey" \in DOMAIN changes /\ changes.fieldKey # c.fieldKey

\* the changes name an operator other than the condition's
OperatorChanges(c, changes) ==
    "operator" \in DOMAIN changes /\ changes.operator # c.operator

\* C22: updateCondition with a fieldKey other than the condition's that is
\* in the catalog gives the condition that fieldKey, the default operator
\* and the default value of the new field's type, also when the type is
\* that of the old field and whatever else the changes carry; with a
\* fieldKey that is not in the catalog the condition gets that fieldKey,
\* its operator and value are not reset (they are the merge of the old
\* ones and the changes) and its flag is FALSE.
C22_FieldChangeResets ==
    [][UpdateCall =>
         \A i \in 1..Len(conditions) :
            (/\ conditions[i].id = call'.id
             /\ FieldChanges(conditions[i], call'.changes))
            => /\ conditions'[i].fieldKey = call'.changes.fieldKey
               /\ HasField(call'.changes.fieldKey) =>
                    /\ conditions'[i].operator =
                          DEFAULT_OPERATOR[FindField(call'.changes.fieldKey).type]
                    /\ conditions'[i].value =
                          DEFAULT_VALUE[FindField(call'.changes.fieldKey).type]
               /\ ~HasField(call'.changes.fieldKey) =>
                    /\ conditions'[i].operator =
                          Carried(conditions[i], call'.changes, "operator")
                    /\ conditions'[i].value =
                          Carried(conditions[i], call'.changes, "value")
                    /\ conditions'[i].isValid = FALSE]_vars

\* C22 witness: the text condition with operator "equals" and value "jo"
\* was moved to another text field by a change that also carried an
\* operator and a value, and holds the defaults of a text field.
C22_Witness ==
    /\ call.fn = "updateCondition"
    /\ call.id = "m1"
    /\ call.changes = [fieldKey |-> "email", operator |-> "equals", value |-> Str("x")]
    /\ conditions = <<Cond("m1", "email", "contains", Str(""), FALSE)>>

\* a condition was moved to a field that is not in the catalog and kept
\* its operator and value
C22_UnknownFieldWitness ==
    /\ call.fn = "updateCondition"
    /\ call.changes = [fieldKey |-> "nickname"]
    /\ conditions = <<Cond("m1", "nickname", "equals", Str("jo"), FALSE)>>

\* the type of the field the condition is on after the call, "none" for a
\* key that is not in the catalog
TypeAfter(c, changes) == TypeOfKey(Carried(c, changes, "fieldKey"))

C25_KeptWitness ==
    /\ call.fn = "updateCondition"
    /\ call.changes = [operator |-> "equals"]
    /\ conditions = <<Cond("m2", "projects", "equals", Str("3"), TRUE)>>

\* the operator of a number condition went from "gt" to "between" and the
\* value is the number default
C25_CrossingWitness ==
    /\ call.fn = "updateCondition"
    /\ call.changes = [operator |-> "between", value |-> Range("1", "5")]
    /\ conditions = <<Cond("m2", "projects", "between", Str(""), FALSE)>>

\* the conditions of a list whose id is not the given one, in order
OthersOf(list, id) ==
    LET Other(c) == c.id # id IN SelectSeq(list, Other)

\* C27: updateCondition(id, changes) returns a list of the same length in
\* which every condition with another id is the same condition at the same
\* position (field, operator, value and validity), so a condition holding
\* the same default value as the updated one keeps it; with an id that no
\* condition has the list is unchanged; removeCondition(id) returns the
\* conditions with another id, all of them and in their order.
C27_MutationFrame ==
    [][/\ UpdateCall =>
            /\ Len(conditions') = Len(conditions)
            /\ \A i \in 1..Len(conditions) :
                  conditions[i].id # call'.id => conditions'[i] = conditions[i]
            /\ (\A i \in 1..Len(conditions) : conditions[i].id # call'.id)
                  => conditions' = conditions
       /\ RemoveCall =>
            /\ conditions' = OthersOf(conditions, call'.id)
            /\ \A i \in 1..Len(conditions') : conditions'[i].id # call'.id]_vars

\* C27 witness: of two conditions holding the default date value, the first
\* was given a value and the second still holds the default.
C27_Witness ==
    /\ call.fn = "updateCondition"
    /\ call.id = "m1"
    /\ call.changes = [value |-> DateRange("2021-03-15", "")]
    /\ Len(conditions) = 2
    /\ conditions[1].value = DateRange("2021-03-15", "")
    /\ conditions[2] = FreshDate("m2")

\* removeCondition removed both conditions of a repeated id
C27_RemoveWitness ==
    /\ call.fn = "removeCondition"
    /\ call.id = "m1"
    /\ conditions = <<>>

\* removeCondition removed the middle one of three
C27_RemoveMiddleWitness ==
    /\ call.fn = "removeCondition"
    /\ call.id = "m1"
    /\ conditions = <<MutSingle, MutSelect>>

\* updateCondition was called with the id of no condition
C27_UnknownIdWitness ==
    /\ call.fn = "updateCondition"
    /\ call.id = "m9"
    /\ conditions = <<MutText, MutSingle>>

---------------------------------------------------------------------------
(* The filter rows on screen: FilterRow, DynamicInput and the value inputs *)
(* driving the mutators of useFilters, with the timers of TextInput.  The  *)
(* timers' clock runs in ticks of its own; the engine's clock "now" stands *)
(* still, a debounce window being far shorter than a day.                  *)

\* debounceMs = 300, in ticks of the timers' clock
DebounceTicks == 2
\* rows on screen at once
MaxRows == 1
\* setTimeout callbacks waiting at once
MaxTimers == 2

\* { ...v }: the own enumerable properties of an object, the index keys of
\* a string or an array, nothing for any other value
SpreadValue(v) ==
    CASE v.t = "object" -> v.o
      [] v.t = "string" ->
            [k \in {NatToString(i - 1) : i \in 1..Len(v.s)} |->
                Str(CharAt(v.s, CHOOSE i \in 1..Len(v.s) : NatToString(i - 1) = k))]
      [] v.t = "array" ->
            [k \in {NatToString(i - 1) : i \in 1..Len(v.a)} |->
                v.a[CHOOSE i \in 1..Len(v.a) : NatToString(i - 1) = k]]
      [] OTHER -> [k \in {} |-> Null]

\* { ...v, [key]: text }
SpreadWith(v, key, text) ==
    Obj([k \in DOMAIN SpreadValue(v) \cup {key} |->
            IF k = key THEN Str(text) ELSE SpreadValue(v)[k]])

\* the condition of a row
RowOf(conds, id) == conds[CHOOSE i \in 1..Len(conds) : conds[i].id = id]

\* the rows in which DynamicInput renders a TextInput
TextRows(conds) ==
    {conds[i].id : i \in {j \in 1..Len(conds) : TypeOfKey(conds[j].fieldKey) = "text"}}

\* a TextInput on its first render: nothing typed, timerRef.current null
NewInput == [lastText |-> "", sinceKey |-> DebounceTicks + 1,
             delivered |-> <<>>, typed |-> FALSE]

\* the TextInput components after a render of the rows (keyed by condition
\* id): one that is still rendered stays, a new one is mounted for a row that
\* had none, and the one of a row that renders none any more is gone
InputsAfter(conds, ins) ==
    [id \in TextRows(conds) |-> IF id \in DOMAIN ins THEN ins[id] ELSE NewInput]

\* the timers after that render: the timer of a component that is gone keeps
\* running (no effect cleanup in TextInput), but no timerRef points at it
\* any more; gone lists the rows whose field changed or that were removed
TimersAfter(conds, tms, gone) ==
    [i \in 1..Len(tms) |->
        [tms[i] EXCEPT !.owned = @ /\ tms[i].id \in TextRows(conds),
                       !.stale = @ \/ tms[i].id \in gone]]

\* the text values typed, the numbers and dates entered, the options chosen
KeyTexts == {"a", "ab"}
NumberTexts == {"", "3"}
DateTexts == {"", "2021-03-15"}
SelectOptions == {"", "Engineering"}
SkillLists == {<<>>, <<"React">>, <<"React", "Node.js">>}

\* what the value input of a row hands to onValueChange on one edit
\* (TextInput apart, whose changes go through its timer)
Emissions(c) ==
    CASE TypeOfKey(c.fieldKey) = "number" ->
            (IF c.operator = "between"
             THEN {SpreadWith(IF isRangeValue(c.value) THEN c.value ELSE Range("", ""),
                            k, text) : k \in {"min", "max"}, text \in NumberTexts}
             ELSE {Str(text) : text \in NumberTexts})
      [] TypeOfKey(c.fieldKey) = "date" ->
            (IF c.operator = "last_30_days" THEN {}
             ELSE IF c.operator \in {"before", "after"}
             THEN {SpreadWith(c.value, "from", text) : text \in DateTexts}
             ELSE {SpreadWith(c.value, k, text) : k \in {"from", "to"}, text \in DateTexts})
      [] TypeOfKey(c.fieldKey) = "amount" ->
            {SpreadWith(c.value, k, text) : k \in {"min", "max"}, text \in NumberTexts}
      [] TypeOfKey(c.fieldKey) = "single-select" -> {Str(o) : o \in SelectOptions}
      [] TypeOfKey(c.fieldKey) = "multi-select" -> {StrList(l) : l \in SkillLists}
      [] TypeOfKey(c.fieldKey) = "boolean" -> {Bool(TRUE), Bool(FALSE)}
      [] OTHER -> {}

\* the page after its first render with nothing stored: no row
UiInit ==
    /\ employees = EMPLOYEES
    /\ conditions = <<>>
    /\ now = Now0
    /\ call = NoCall
    /\ ret = FALSE
    /\ filteredData = filterEmployees(employees, conditions, now)
    /\ storage = JSONStringify(ConditionsToJS(conditions))
    /\ storageFails = FALSE
    /\ hook = "mounted"
    /\ idCounter = 0
    /\ sort = InitialSort
    /\ sortedData = sortedDataOf(filteredData, sort)
    /\ sortLog = <<InitialSort>>
    /\ UiUnused

\* a user event or a timer callback that ends in an updater of the hook
UiCall(fn, id, changes) ==
    [fn |-> fn, e |-> 0, c |-> 0, id |-> id, changes |-> changes]

\* "Add filter"
UiAdd ==
    /\ hook = "mounted"
    /\ idCounter < MaxIds
    /\ Len(conditions) < MaxRows
    /\ idCounter' = idCounter + 1
    /\ conditions' = addCondition(conditions, genId(now, idCounter'))
    /\ call' = UiCall("addCondition", genId(now, idCounter'), <<>>)
    /\ inputs' = InputsAfter(conditions', inputs)
    /\ UNCHANGED <<timers, settled>>
    /\ Rerender

\* the delete button of a row
UiRemove(id) ==
    /\ hook = "mounted"
    /\ conditions' = removeCondition(conditions, id)
    /\ call' = UiCall("removeCondition", id, <<>>)
    /\ inputs' = InputsAfter(conditions', inputs)
    /\ timers' = TimersAfter(conditions', timers, {id})
    /\ settled' = settled \ {id}
    /\ UNCHANGED idCounter
    /\ Rerender

\* "Clear all"
UiClear ==
    /\ hook = "mounted"
    /\ conditions # <<>>
    /\ conditions' = <<>>
    /\ call' = UiCall("clearAll", "", <<>>)
    /\ inputs' = NoInputs
    /\ timers' = TimersAfter(conditions', timers, RowIds)
    /\ settled' = {}
    /\ UNCHANGED idCounter
    /\ Rerender

\* the field selector of a row: onUpdate(condition.id, { fieldKey })
SelectField(id, key) ==
    /\ hook = "mounted"
    /\ key # RowOf(conditions, id).fieldKey
    /\ conditions' = updateCondition(conditions, id, [fieldKey |-> key])
    /\ call' = UiCall("selectField", id, [fieldKey |-> key])
    /\ inputs' = InputsAfter(conditions', inputs)
    /\ timers' = TimersAfter(conditions', timers, {id})
    /\ settled' = settled \cup {id}
    /\ UNCHANGED idCounter
    /\ Rerender

\* the operator selector of a row, which offers the operators of the type
\* of the row's field: onUpdate(condition.id, { operator })
SelectOperator(id, op) ==
    /\ hook = "mounted"
    /\ HasField(RowOf(conditions, id).fieldKey)
    /\ op \in OperatorsOf(TypeOfKey(RowOf(conditions, id).fieldKey))
    /\ op # RowOf(conditions, id).operator
    /\ conditions' = updateCondition(conditions, id, [operator |-> op])
    /\ call' = UiCall("selectOperator", id, [operator |-> op])
    /\ UNCHANGED <<idCounter, uiVars>>
    /\ Rerender

\* an edit in the value input of a row: onUpdate(condition.id, { value })
EditValue(id, v) ==
    /\ hook = "mounted"
    /\ v \in Emissions(RowOf(conditions, id))
    /\ conditions' = updateCondition(conditions, id, [value |-> v])
    /\ call' = UiCall("editValue", id, [value |-> v])
    /\ settled' = settled \ {id}
    /\ UNCHANGED <<idCounter, timers, inputs>>
    /\ Rerender

\* the places in the queue of the timers set by the TextInput that is
\* mounted in a row
OwnedBy(tms, id) == {i \in 1..Len(tms) : tms[i].id = id /\ tms[i].owned}

\* a timer set by the TextInput of the row is waiting
Pending(tms, id) == OwnedBy(tms, id) # {}

\* the queue without its i-th timer
Without(tms, i) == SubSeq(tms, 1, i - 1) \o SubSeq(tms, i + 1, Len(tms))

\* clearTimeout(timerRef.current): timerRef.current is the timer that the
\* component set last; clearing one that has run does nothing
Cleared(tms, id) ==
    IF OwnedBy(tms, id) = {} THEN tms
    ELSE Without(tms, CHOOSE i \in OwnedBy(tms, id) :
                          \A j \in OwnedBy(tms, id) : j <= i)

\* mutant of handleChange: the waiting timer is not cleared
handleChange_NoClear(tms, id, text) ==
    Append(tms,
           [id |-> id, text |-> text, remaining |-> DebounceTicks,
            owned |-> TRUE, stale |-> FALSE])

\* TextInput.handleChange: the waiting timer is cleared and a new one set
handleChange(tms, id, text) ==
    Append(Cleared(tms, id),
           [id |-> id, text |-> text, remaining |-> DebounceTicks,
            owned |-> TRUE, stale |-> FALSE])

\* a keystroke in the TextInput of a row; a keystroke while the timer of the
\* one before is waiting goes on with the burst, any other begins one
Keystroke(id, text) ==
    /\ hook = "mounted"
    /\ id \in DOMAIN inputs
    /\ Len(handleChange(timers, id, text)) <= MaxTimers
    /\ timers' = handleChange(timers, id, text)
    /\ inputs' = [inputs EXCEPT ![id] =
                     [lastText |-> text, sinceKey |-> 0, typed |-> TRUE,
                      delivered |-> IF Pending(timers, id) THEN @.delivered ELSE <<>>]]
    /\ settled' = settled \ {id}
    /\ call' = UiCall("handleChange", id, [text |-> text])
    /\ UNCHANGED <<employees, conditions, now, ret, filteredData>>
    /\ UNCHANGED <<hookVars, sortVars>>

\* a tick of the timers' clock; a timer that is due runs before the next
Elapse ==
    /\ hook = "mounted"
    /\ \A i \in 1..Len(timers) : timers[i].remaining > 0
    /\ timers' = [i \in 1..Len(timers) |->
                     [timers[i] EXCEPT !.remaining = @ - 1]]
    /\ inputs' = [id \in DOMAIN inputs |->
                     [inputs[id] EXCEPT !.sinceKey =
                         IF @ > DebounceTicks THEN @ ELSE @ + 1]]
    /\ call' = UiCall("elapse", "", <<>>)
    /\ UNCHANGED settled
    /\ UNCHANGED <<employees, conditions, now, ret, filteredData>>
    /\ UNCHANGED <<hookVars, sortVars>>

\* the value of a row after a timer's update, Undefined when the row is gone
ValueOfRow(conds, id) ==
    IF \E i \in 1..Len(conds) : conds[i].id = id
    THEN RowOf(conds, id).value ELSE Undefined

\* the oldest timer is due and its callback runs (timers of one delay run
\* in the order they were set): onChange(next), which is
\* onUpdate(condition.id, { value: next }) of the row the timer was set in
TimerFire ==
    /\ hook = "mounted"
    /\ timers # <<>>
    /\ Head(timers).remaining = 0
    /\ conditions' = updateCondition(conditions, Head(timers).id,
                                     [value |-> Str(Head(timers).text)])
    /\ call' = [fn |-> "timer", e |-> 0, c |-> 0, id |-> Head(timers).id,
                changes |-> [value |-> Str(Head(timers).text)],
                stale |-> Head(timers).stale]
    /\ timers' = Tail(timers)
    /\ inputs' = IF Head(timers).owned
                 THEN [inputs EXCEPT ![Head(timers).id].delivered =
                          Append(@, ValueOfRow(conditions', Head(timers).id))]
                 ELSE inputs
    /\ UNCHANGED <<idCounter, settled>>
    /\ Rerender

\* the fields chosen in the field selector while the timers are looked at:
\* two text fields and a date field
DebounceFields == {"name", "email", "joinDate"}

DebounceNext ==
    \/ UiAdd
    \/ \E id \in RowIds : UiRemove(id)
    \/ \E id \in RowIds : \E key \in DebounceFields : SelectField(id, key)
    \/ \E id \in RowIds : \E text \in KeyTexts : Keystroke(id, text)
    \/ Elapse
    \/ TimerFire

DebounceSpec == UiInit /\ [][DebounceNext]_vars

\* the fields chosen in the field selector: one of each type, and a second
\* text field
UiFields == {"name", "email", "projects", "joinDate", "salary", "department",
             "skills", "isActive"}

UiNext ==
    \/ UiAdd
    \/ \E id \in RowIds : UiRemove(id)
    \/ UiClear
    \/ \E id \in RowIds : \E key \in UiFields : SelectField(id, key)
    \/ \E id \in RowIds :
          \E op \in OperatorsOf(TypeOfKey(RowOf(conditions, id).fieldKey)) :
             SelectOperator(id, op)
    \/ \E id \in RowIds : \E v \in Emissions(RowOf(conditions, id)) : EditValue(id, v)
    \/ \E id \in RowIds : Keystroke(id, "ab")
    \/ Elapse
    \/ TimerFire

UiSpec == UiInit /\ [][UiNext]_vars

---------------------------------------------------------------------------
(* Claims about the debounced text input (specification DebounceSpec)      *)

\* C21: of a burst of keystrokes in the text input of a row, each while the
\* timer of the one before is waiting, the input hands exactly one value to
\* the condition: the text of the last keystroke, once a full window has
\* passed since that keystroke and not before; no text of an earlier
\* keystroke of the burst reaches the condition.
C21_DebouncedOnce ==
    \A id \in DOMAIN inputs :
        inputs[id].typed =>
            /\ Len(inputs[id].delivered) <= 1
            /\ inputs[id].delivered # <<>> =>
                  /\ inputs[id].delivered = <<Str(inputs[id].lastText)>>
                  /\ inputs[id].sinceKey >= DebounceTicks
            /\ inputs[id].sinceKey < DebounceTicks =>
                  /\ inputs[id].delivered = <<>>
                  /\ Pending(timers, id)
            /\ inputs[id].sinceKey > DebounceTicks =>
                  inputs[id].delivered = <<Str(inputs[id].lastText)>>

\* C21 witness: "a" then "ab" were typed within the window, the window has
\* passed, and the condition holds "ab", handed over once.
C21_Witness ==
    /\ call.fn = "timer"
    /\ \E id \in DOMAIN inputs :
          /\ inputs[id].lastText = "ab"
          /\ inputs[id].delivered = <<Str("ab")>>
          /\ inputs[id].sinceKey = DebounceTicks
          /\ RowOf(conditions, id).value = Str("ab")
          /\ RowOf(conditions, id).fieldKey = "name"

\* a second keystroke came while the timer of the first was waiting
C21_BurstWitness ==
    \E id \in DOMAIN inputs :
        /\ call.fn = "handleChange"
        /\ inputs[id].lastText = "ab"
        /\ inputs[id].sinceKey = 0
        /\ Len(timers) = 1
        /\ timers[1].text = "ab"
        /\ RowOf(conditions, id).value = Str("")

\* the value has the form that the inputs of the type write
ShapeOfType(ty, v) ==
    CASE ty \in {"text", "single-select"} -> v.t = "string"
      [] ty = "date" ->
            v.t = "object" /\ DOMAIN v.o = {"from", "to"}
              /\ \A k \in DOMAIN v.o : v.o[k].t = "string"
      [] OTHER -> TRUE

\* C28 as stated: a timer of the text input that was set before the field of
\* its row was changed, or before its row was removed, changes nothing in
\* the collection when it runs; and from the change of its field until the
\* user types or edits in the row, a row holds the default value of the type
\* of its field, which has the form that type expects.
C28_StaleTimerHarmless ==
    /\ [][(call'.fn = "timer" /\ call' # call /\ call'.stale)
             => conditions' = conditions]_vars
    /\ [](\A i \in 1..Len(conditions) :
             conditions[i].id \in settled =>
                /\ conditions[i].value =
                      DEFAULT_VALUE[TypeOfKey(conditions[i].fieldKey)]
                /\ ShapeOfType(TypeOfKey(conditions[i].fieldKey),
                               conditions[i].value))

\* the part of C28 that holds: a timer whose row was removed changes
\* nothing when it runs
C28_Part_Removed ==
    [][(call'.fn = "timer" /\ call' # call
          /\ \A i \in 1..Len(conditions) : conditions[i].id # call'.id)
         => conditions' = conditions]_vars

\* a timer ran after its row was removed
C28_RemovedWitness ==
    /\ call.fn = "timer"
    /\ call.stale
    /\ conditions = <<>>

---------------------------------------------------------------------------
(* Claims about the collection under the rows' events (specification       *)
(* UiSpec)                                                                 *)

\* C29: in every state reached from the empty collection by adding,
\* removing and clearing rows, choosing fields of the catalog, choosing
\* operators from the list a row offers, editing and typing values, and the
\* timers of the text inputs running, the operator of every condition is
\* one of the operators of the type of the condition's field.
C29_OperatorOfFieldType ==
    \A i \in 1..Len(conditions) :
        /\ HasField(conditions[i].fieldKey)
        /\ conditions[i].operator
              \in OperatorsOf(TypeOfKey(conditions[i].fieldKey))

\* C29 witness: the field of a row went from a text field to a number field
\* and the operator is the default of the number type.
C29_Witness ==
    /\ call.fn = "selectField"
    /\ call.changes = [fieldKey |-> "projects"]
    /\ Len(conditions) = 1
    /\ conditions[1].fieldKey = "projects"
    /\ conditions[1].operator = "equals"

\* an operator that is not the default was chosen, and then a value entered
C29_ChosenWitness ==
    /\ call.fn = "editValue"
    /\ Len(conditions) = 1
    /\ conditions[1].fieldKey = "skills"
    /\ conditions[1].operator = "contains_all"
    /\ conditions[1].isValid

\* a string-keyed object whose properties are exactly the two named, both
\* strings
IsPair(v, a, b) ==
    /\ v.t = "object"
    /\ DOMAIN v.o = {a, b}
    /\ \A k \in DOMAIN v.o : v.o[k].t = "string"

\* the form of value that a field type and an operator expect
ExpectedShape(type, operator, v) ==
    CASE type \in {"text", "single-select"} -> v.t = "string"
      [] type = "number" ->
            (IF operator = "between" THEN IsPair(v, "min", "max") ELSE v.t = "string")
      [] type = "amount" -> IsPair(v, "min", "max")
      [] type = "date" -> IsPair(v, "from", "to")
      [] type = "multi-select" ->
            v.t = "array" /\ \A j \in 1..Len(v.a) : v.a[j].t = "string"
      [] type = "boolean" -> v.t = "boolean"
      [] OTHER -> FALSE

\* C30 as stated: in every state reached from the empty collection by the
\* rows' events in which no timer of a text input is waiting, the value of
\* every condition has the form its field type and operator expect: a
\* string for text, single-select and number under a single-value operator,
\* a min/max object for amount and for number under "between", a from/to
\* object for date, a list of strings for multi-select, a boolean for
\* boolean.
C30_ValueShape ==
    timers = <<>> =>
        \A i \in 1..Len(conditions) :
            ExpectedShape(TypeOfKey(conditions[i].fieldKey),
                          conditions[i].operator, conditions[i].value)

\* a number row on which "between" was chosen and nothing entered yet
NumberBetweenDefault(c) ==
    /\ TypeOfKey(c.fieldKey) = "number"
    /\ c.operator = "between"
    /\ c.value = DEFAULT_VALUE["number"]

ShapedOrDefault(conds) ==
    \A i \in 1..Len(conds) :
        \/ NumberBetweenDefault(conds[i])
        \/ ExpectedShape(TypeOfKey(conds[i].fieldKey), conds[i].operator,
                         conds[i].value)

\* the part of C30 that holds: number rows under "between" with the default
\* value apart, no event takes a collection of expected shapes to one that
\* is not, except a timer that was set before the field of its row changed
C30_Part_Shape ==
    [][(ShapedOrDefault(conditions) /\ ~(call'.fn = "timer" /\ call'.stale))
          => ShapedOrDefault(conditions')]_vars

====
